---------------------------- MODULE Spec2Model ----------------------------
(***************************************************************************)
(* Passwordless authentication core of the Digital-menu server:            *)
(* verification codes, users, bearer-token sessions, the tRPC context      *)
(* (createTRPCContext), the protectedProcedure gate and the authRouter     *)
(* procedures.  Every Prisma call of verifyAndRegister / verifyAndLogin is *)
(* one atomic step, so that concurrent requests interleave between their   *)
(* awaits exactly as they do on the server.  The restaurant, category and  *)
(* dish procedures that stand behind the same gate run one handler a step. *)
(*                                                                         *)
(* Strings the code takes apart (e-mail addresses, Authorization headers,  *)
(* tokens, names, codes) are sequences of one-character strings.  Time is  *)
(* counted in minutes.                                                     *)
(***************************************************************************)
EXTENDS Integers, Sequences, FiniteSets, TLC

VARIABLES
    now,        \* the server clock (new Date()), in minutes
    env,        \* env.SEND_VERIFICATION_CODE and whether RESEND_API_KEY is set
    users,      \* table "User"
    sessions,   \* table "Session"
    codes,      \* table "VerificationCode"
    procs,      \* the verifyAndRegister / verifyAndLogin requests in flight
    issued,     \* history: every code row ever created by sendVerificationCode
    calls,      \* history: every verification that reached session.create
    loggedOut,  \* history: tokens whose sessions logout has deleted
    menu,       \* tables "Restaurant", "Category", "Dish", "DishCategory"
    client,     \* one browser: localStorage, AuthProvider state, login page
    pager       \* one infinite query walking the pages of a list

vars == <<now, env, users, sessions, codes, procs, issued, calls, loggedOut, menu,
          client, pager>>

-----------------------------------------------------------------------------
(* Bounds of the model *)

NProcs == 2        \* verification requests that may be in flight together
MaxCodes == 2      \* code rows sendVerificationCode creates in one behaviour
MaxTokens == 2     \* session tokens generated in one behaviour
MaxSlack == 10     \* minutes the clock may run past the session lifetime
MaxRestaurants == 2   \* restaurants created in one behaviour
MaxCategories == 2    \* categories created in one behaviour
MaxDishes == 1        \* dishes created in one behaviour
MaxCategoryIds == 2   \* length of the categoryIds array of a dish request
MaxPages == 3         \* pages one infinite query fetches

(* Program constants *)

CodeTTLMinutes == 10       \* expiresAt.setMinutes(getMinutes() + 10)
SessionTTLDays == 30       \* expiresAt.setDate(getDate() + 30)
CodeLength == 6            \* z.string().length(6)
CodeBase == 100000         \* Math.floor(100000 + Math.random() * 900000)
CodeSpan == 900000

MinutesPerDay == 24 * 60
SessionTTL == SessionTTLDays * MinutesPerDay

-----------------------------------------------------------------------------
(* Strings *)

LowerCaseLetters ==
    <<"a","b","c","d","e","f","g","h","i","j","k","l","m",
      "n","o","p","q","r","s","t","u","v","w","x","y","z">>

UpperCaseLetters ==
    <<"A","B","C","D","E","F","G","H","I","J","K","L","M",
      "N","O","P","Q","R","S","T","U","V","W","X","Y","Z">>

Letters == 1..Len(LowerCaseLetters)

UpperMap ==
    [c \in {LowerCaseLetters[i] : i \in Letters} |->
        UpperCaseLetters[CHOOSE i \in Letters : LowerCaseLetters[i] = c]]

LowerMap ==
    [c \in {UpperCaseLetters[i] : i \in Letters} |->
        LowerCaseLetters[CHOOSE i \in Letters : UpperCaseLetters[i] = c]]

\* String.prototype.toUpperCase on one ASCII character
toUpperCase(c) == IF c \in DOMAIN UpperMap THEN UpperMap[c] ELSE c

\* the case folding of the regular expression flag i, on one ASCII character
toLowerCase(c) == IF c \in DOMAIN LowerMap THEN LowerMap[c] ELSE c

\* the characters \s matches and trim() removes
IsSpace(c) == c \in {" ", "\t"}

RECURSIVE TrimStart(_)
TrimStart(s) ==
    IF s # <<>> /\ IsSpace(Head(s)) THEN TrimStart(Tail(s)) ELSE s

RECURSIVE TrimEnd(_)
TrimEnd(s) ==
    IF s # <<>> /\ IsSpace(s[Len(s)]) THEN TrimEnd(SubSeq(s, 1, Len(s) - 1)) ELSE s

\* String.prototype.trim
Trim(s) == TrimEnd(TrimStart(s))

\* the literal "Bearer" of the pattern /^Bearer\s+/i
BearerWord == <<"B","e","a","r","e","r">>

\* the literal "undefined" of the test token !== "undefined"
UndefinedWord == <<"u","n","d","e","f","i","n","e","d">>

LowerSeq(s) == [i \in 1..Len(s) |-> toLowerCase(s[i])]

BearerLower == LowerSeq(BearerWord)

\* s.replace(/^Bearer\s+/i, ""): the prefix goes only when the word, in any
\* case, is followed by at least one white-space character
StripBearer(s) ==
    LET n == Len(BearerWord) IN
    IF /\ Len(s) > n
       /\ LowerSeq(SubSeq(s, 1, n)) = BearerLower
       /\ IsSpace(s[n + 1])
    THEN TrimStart(SubSeq(s, n + 1, Len(s)))
    ELSE s

\* "@" splits an address; split("@")[0] is the text before the first "@"
RECURSIVE SplitAtFirst(_)
SplitAtFirst(s) ==
    IF s = <<>> \/ Head(s) = "@" THEN <<>> ELSE <<Head(s)>> \o SplitAtFirst(Tail(s))

\* mutant: the whole name in upper case
CapitalizeAll(s) == [i \in 1..Len(s) |-> toUpperCase(s[i])]

\* emailName.charAt(0).toUpperCase() + emailName.slice(1)
Capitalize(s) ==
    IF s = <<>> THEN <<>> ELSE <<toUpperCase(Head(s))>> \o Tail(s)

DigitChar == <<"0","1","2","3","4","5","6","7","8","9">>

\* Number.prototype.toString of a non-negative integer
RECURSIVE NumberToString(_)
NumberToString(n) ==
    IF n < 10 THEN <<DigitChar[n + 1]>>
    ELSE NumberToString(n \div 10) \o <<DigitChar[(n % 10) + 1]>>

-----------------------------------------------------------------------------
(* Values the requests are drawn from *)

Emails ==
    { <<"a","l","@","x",".","i","o">>,
      <<"7","b","@","y",".","c","o">> }

\* name and country a registration form supplies
Profiles ==
    { [name |-> <<"A","n","n">>, country |-> "India"] }

NoProfile == [name |-> <<>>, country |-> ""]

\* Math.random() at the two ends of [0, 1): the offsets floor() can add
RandomOffsets == {0, CodeSpan - 1}

\* Math.floor(100000 + Math.random() * 900000).toString()
generateVerificationCode(offset) == NumberToString(CodeBase + offset)

InputCodes == {generateVerificationCode(o) : o \in RandomOffsets}

HexChar == <<"0","1","2","3","4","5","6","7","8","9","a","b","c","d","e","f">>

\* mutant: every call generates the same token
generateSessionTokenFixed(k) == <<"c", HexChar[2]>>

\* randomBytes(32).toString("hex"): a fresh value every time, here the hex
\* digits of the number of tokens generated so far
generateSessionToken(k) == <<"c", HexChar[(k % 16) + 1]>>

AllTokens == {generateSessionToken(k) : k \in 1..MaxTokens}

-----------------------------------------------------------------------------
(* Request headers and the tRPC context *)

AbsentHeader == [kind |-> "absent"]
StringHeader(s) == [kind |-> "string", val |-> s]
ArrayHeader(s) == [kind |-> "array", val |-> <<s>>]

NullToken == [null |-> TRUE]
StrToken(s) == [null |-> FALSE, str |-> s]

\* typeof authHeader === "string" ? authHeader.replace(...).trim() : null
ExtractToken(authHeader) ==
    IF authHeader.kind = "string"
    THEN StrToken(Trim(StripBearer(authHeader.val)))
    ELSE NullToken

\* token && token !== "undefined"
UsableToken(token) ==
    /\ ~token.null
    /\ token.str # <<>>
    /\ token.str # UndefinedWord

NoUserId == 0

\* mutant: a session is accepted at the instant of its expiry
createTRPCContextGte(authHeader) ==
    LET token == ExtractToken(authHeader)
        found == IF UsableToken(token)
                 THEN {s \in sessions : s.token = token.str}
                 ELSE {}
    IN  IF \E s \in found : s.expiresAt >= now
        THEN (CHOOSE s \in found : s.expiresAt >= now).userId
        ELSE NoUserId

\* createTRPCContext: the userId bound to a request carrying authHeader
createTRPCContext(authHeader) ==
    LET token == ExtractToken(authHeader)
        found == IF UsableToken(token)
                 THEN {s \in sessions : s.token = token.str}
                 ELSE {}
    IN  IF \E s \in found : s.expiresAt > now
        THEN (CHOOSE s \in found : s.expiresAt > now).userId
        ELSE NoUserId

\* the Authorization headers a client may send for the token text t: the
\* header the application's client sends; the same in lower case with more
\* white space; the token alone; the word and the token run together; the
\* header with the last character of the token lost; a repeated header,
\* which Node hands over as an array
HeaderForms == {"bearer", "loose", "bare", "glued", "truncated", "array"}

HeaderOf(form, t) ==
    CASE form = "bearer" -> StringHeader(BearerWord \o <<" ">> \o t)
      [] form = "loose" -> StringHeader(BearerLower \o <<" ", "\t">> \o t \o <<" ">>)
      [] form = "bare" -> StringHeader(t)
      [] form = "glued" -> StringHeader(BearerWord \o t)
      [] form = "truncated" ->
            StringHeader(BearerWord \o <<" ">> \o SubSeq(t, 1, Len(t) - 1))
      [] form = "array" -> ArrayHeader(BearerWord \o <<" ">> \o t)

\* the header the application's client sends: Authorization: Bearer <token>
Bearer(t) == HeaderOf("bearer", t)

HeadersFor(tokens) ==
    {AbsentHeader} \cup {HeaderOf(form, t) : form \in HeaderForms, t \in tokens}

\* every header over every token the server can generate
Headers == HeadersFor(AllTokens \cup {UndefinedWord})

-----------------------------------------------------------------------------
(* The store and the requests in flight *)

NoRow == [id |-> 0]
NoUser == [id |-> NoUserId]

Idle ==
    [pc |-> "idle", op |-> "none", email |-> <<>>, code |-> <<>>,
     profile |-> NoProfile, vc |-> NoRow, user |-> NoUser,
     lookupAt |-> 0, provisioned |-> FALSE]

Procs == 1..NProcs

\* the menu tables before any restaurant is created; created counts the rows
\* ever inserted into a table, from which the next id (a cuid) is drawn
EmptyMenu ==
    [restaurants |-> {}, categories |-> {}, dishes |-> {}, dishCategories |-> {},
     created |-> [restaurant |-> 0, category |-> 0, dish |-> 0]]

\* the select of getCurrentUser: id, email, name, country
PublicUser(u) == [id |-> u.id, email |-> u.email, name |-> u.name, country |-> u.country]

\* the browser before the application is opened: nothing in localStorage,
\* AuthProvider not mounted, the login page at its first step
ClientClosed ==
    [stored |-> NullToken, token |-> NullToken, isInitialized |-> FALSE,
     query |-> "idle", user |-> NoUserId, errorSeen |-> TRUE,
     step |-> "email", email |-> <<>>, pending |-> "none", cleared |-> {}]

\* cursor: z.string().optional(), left out
NoCursor == 0

\* no list is being paged through
NoWalk ==
    [list |-> "none", userId |-> NoUserId, restaurantId |-> 0, limit |-> 0,
     cursor |-> NoCursor, pages |-> <<>>, done |-> FALSE]

\* a step of the server alone: the browser is not involved
ServerOnly == UNCHANGED <<client, pager>>

Init ==
    /\ now = 0
    /\ env = [SEND_VERIFICATION_CODE |-> FALSE, RESEND_API_KEY |-> FALSE]
    /\ users = {}
    /\ sessions = {}
    /\ codes = {}
    /\ procs = [p \in Procs |-> Idle]
    /\ issued = {}
    /\ calls = {}
    /\ loggedOut = {}
    /\ menu = EmptyMenu
    /\ client = ClientClosed
    /\ pager = NoWalk

-----------------------------------------------------------------------------
(* The clock *)

\* the clock moves in steps of half a code lifetime inside a window of
\* MaxSlack minutes, and jumps from one window to the window in which the
\* sessions of the first expire
Quantum == CodeTTLMinutes \div 2
Leap == SessionTTL - CodeTTLMinutes

\* a few minutes pass
TickQuantum ==
    /\ (now % Leap) + Quantum <= MaxSlack
    /\ now' = now + Quantum
    /\ UNCHANGED <<env, users, sessions, codes, procs, issued, calls, loggedOut, menu>>

\* almost a session lifetime passes
TickLeap ==
    /\ now + Leap <= SessionTTL + MaxSlack
    /\ now' = now + Leap
    /\ UNCHANGED <<env, users, sessions, codes, procs, issued, calls, loggedOut, menu>>

-----------------------------------------------------------------------------
(* auth.sendVerificationCode *)

\* sendVerificationCodeEmail(email, code, sendVerificationCode); mail is what
\* resend.emails.send does: it resolves with data ("delivered"), resolves
\* with an error object ("rejected") or throws ("throws")
sendVerificationCodeEmail(email, code, sendFlag, mail) ==
    IF ~sendFlag THEN [success |-> TRUE, code |-> code, dispatched |-> FALSE]
    ELSE IF ~env.RESEND_API_KEY
         THEN [success |-> TRUE, code |-> code, dispatched |-> FALSE]
    ELSE IF mail = "throws"
         THEN [success |-> FALSE, code |-> <<>>, dispatched |-> FALSE]
    ELSE [success |-> TRUE, code |-> code, dispatched |-> mail = "delivered"]

MailOutcomes == {"delivered", "rejected", "throws"}

\* the row is created before the mail is tried
SendVerificationCode(email, offset, mail) ==
    /\ Cardinality(issued) < MaxCodes
    /\ LET code == generateVerificationCode(offset)
           row == [id |-> Cardinality(issued) + 1, email |-> email, code |-> code,
                   expiresAt |-> now + CodeTTLMinutes, createdAt |-> now]
       IN  /\ codes' = codes \cup {row}
           /\ issued' = issued \cup {row}
    /\ UNCHANGED <<now, env, users, sessions, procs, calls, loggedOut, menu>>

\* what the mutation answers for the code it has just stored
sendVerificationCodeResponse(email, code, mail) ==
    LET result == sendVerificationCodeEmail(email, code, env.SEND_VERIFICATION_CODE, mail)
    IN  IF result.success
        THEN [status |-> "OK", code |-> result.code, dispatched |-> result.dispatched]
        ELSE [status |-> "INTERNAL_SERVER_ERROR"]

-----------------------------------------------------------------------------
(* auth.verifyAndRegister and auth.verifyAndLogin, one Prisma call a step *)

\* mutant: orderBy: {createdAt: "asc"}
findFirstCodeOldest(email, code) ==
    LET matching == {r \in codes : r.email = email /\ r.code = code /\ r.expiresAt > now}
    IN  {r \in matching : \A q \in matching : q.createdAt >= r.createdAt}

\* mutant: expiresAt: {gte: new Date()}
findFirstCodeGte(email, code) ==
    LET matching == {r \in codes : r.email = email /\ r.code = code /\ r.expiresAt >= now}
    IN  {r \in matching : \A q \in matching : q.createdAt <= r.createdAt}

\* verificationCode.findFirst({where: {email, code, expiresAt: {gt: new Date()}},
\*                             orderBy: {createdAt: "desc"}}): the rows it may return
findFirstCode(email, code) ==
    LET matching == {r \in codes : r.email = email /\ r.code = code /\ r.expiresAt > now}
    IN  {r \in matching : \A q \in matching : q.createdAt <= r.createdAt}

\* mutant: the email filter is lost and some user is returned
findUserOfAnyEmail(email) ==
    IF users # {} THEN CHOOSE u \in users : TRUE ELSE NoUser

\* user.findUnique({where: {email}})
findUserByEmail(email) ==
    IF \E u \in users : u.email = email
    THEN CHOOSE u \in users : u.email = email
    ELSE NoUser

\* mutant: the where clause is lost and some user is returned
findUserByIdAny(id) ==
    IF users # {} THEN CHOOSE u \in users : TRUE ELSE NoUser

\* user.findUnique({where: {id}})
findUserById(id) ==
    IF \E u \in users : u.id = id
    THEN CHOOSE u \in users : u.id = id
    ELSE NoUser

\* mutant: no unique index on the email
EmailNeverTaken(email) == FALSE

\* the unique index User_email_key: an insert of a second row with the same
\* email is rejected
EmailTaken(email) == \E u \in users : u.email = email

\* requests that have found their code and have not generated a token yet
Minting == {p \in Procs : procs[p].pc \in {"findUser", "upsert", "provision", "session"}}

\* the answer of a verification whose findFirst returns nothing
VerifyLookupStatus(email, code) ==
    IF findFirstCode(email, code) = {} THEN "UNAUTHORIZED" ELSE "FOUND"

\* the request arrives with a code of six characters and looks it up;
\* without a row it throws UNAUTHORIZED and nothing changes
VerifyLookup(p, op, email, code, profile) ==
    /\ procs[p].pc = "idle"
    /\ Len(code) = CodeLength
    /\ VerifyLookupStatus(email, code) = "FOUND"
    /\ Cardinality(calls) + Cardinality(Minting) < MaxTokens
    /\ \E r \in findFirstCode(email, code) :
         procs' = [procs EXCEPT ![p] =
                     [pc |-> "findUser", op |-> op, email |-> email,
                      code |-> code, profile |-> profile, vc |-> r,
                      user |-> NoUser, lookupAt |-> now, provisioned |-> FALSE]]
    /\ UNCHANGED <<now, env, users, sessions, codes, issued, calls, loggedOut, menu>>

\* mutant: the refused request clears the expired rows of its email
VerifyRefusedCleansUp(p, op, email, code) ==
    /\ procs[p].pc = "idle"
    /\ Len(code) = CodeLength
    /\ VerifyLookupStatus(email, code) = "UNAUTHORIZED"
    /\ procs' = [procs EXCEPT ![p] =
                   [Idle EXCEPT !.pc = "refused", !.op = op,
                                !.email = email, !.code = code, !.lookupAt = now]]
    /\ codes' = {r \in codes : ~(r.email = email /\ r.expiresAt <= now)}
    /\ UNCHANGED <<now, env, users, sessions, issued, calls, loggedOut, menu>>

\* the request arrives with a code of six characters and findFirst returns
\* nothing: if (!verificationCode) throw UNAUTHORIZED, before any write
VerifyRefused(p, op, email, code) ==
    /\ procs[p].pc = "idle"
    /\ Len(code) = CodeLength
    /\ VerifyLookupStatus(email, code) = "UNAUTHORIZED"
    /\ procs' = [procs EXCEPT ![p] =
                   [Idle EXCEPT !.pc = "refused", !.op = op,
                                !.email = email, !.code = code, !.lookupAt = now]]
    /\ UNCHANGED <<now, env, users, sessions, codes, issued, calls, loggedOut, menu>>

\* the UNAUTHORIZED error reaches the caller and the request is over
VerifyThrow(p) ==
    /\ procs[p].pc = "refused"
    /\ procs' = [procs EXCEPT ![p] = Idle]
    /\ UNCHANGED <<now, env, users, sessions, codes, issued, calls, loggedOut, menu>>

VerifyAndRegisterStart(p) ==
    \E email \in Emails, code \in InputCodes, profile \in Profiles :
        VerifyLookup(p, "verifyAndRegister", email, code, profile)

VerifyAndLoginStart(p) ==
    \E email \in Emails, code \in InputCodes :
        VerifyLookup(p, "verifyAndLogin", email, code, NoProfile)

\* let user = await ctx.db.user.findUnique({where: {email: input.email}})
VerifyFindUser(p) ==
    /\ procs[p].pc = "findUser"
    /\ LET user == findUserByEmail(procs[p].email)
           next == IF procs[p].op = "verifyAndRegister" THEN "upsert"
                   ELSE IF user = NoUser THEN "provision"
                   ELSE "session"
       IN  procs' = [procs EXCEPT ![p].user = user, ![p].pc = next]
    /\ UNCHANGED <<now, env, users, sessions, codes, issued, calls, loggedOut, menu>>

\* verifyAndRegister: user.update when the lookup found a user, else
\* user.create; a failed write ends the request with INTERNAL_SERVER_ERROR
RegisterUpsertUser(p) ==
    /\ procs[p].pc = "upsert"
    /\ LET me == procs[p]
           updated == [id |-> me.user.id, email |-> me.email,
                       name |-> me.profile.name, country |-> me.profile.country]
           created == [id |-> Cardinality(users) + 1, email |-> me.email,
                       name |-> me.profile.name, country |-> me.profile.country]
       IN  IF me.user # NoUser
           THEN IF \E u \in users : u.email = me.email
                THEN /\ users' = {IF u.email = me.email THEN updated ELSE u : u \in users}
                     /\ procs' = [procs EXCEPT ![p].user = updated, ![p].pc = "session"]
                ELSE /\ procs' = [procs EXCEPT ![p] = Idle]
                     /\ UNCHANGED users
           ELSE IF EmailTaken(me.email)
                THEN /\ procs' = [procs EXCEPT ![p] = Idle]
                     /\ UNCHANGED users
                ELSE /\ users' = users \cup {created}
                     /\ procs' = [procs EXCEPT ![p].user = created, ![p].pc = "session"]
    /\ UNCHANGED <<now, env, sessions, codes, issued, calls, loggedOut, menu>>

\* verifyAndLogin: the user is created from the address when none was found
LoginProvisionUser(p) ==
    /\ procs[p].pc = "provision"
    /\ LET me == procs[p]
           emailName == SplitAtFirst(me.email)
           capitalizedName == Capitalize(emailName)
           created == [id |-> Cardinality(users) + 1, email |-> me.email,
                       name |-> capitalizedName, country |-> "Unknown"]
       IN  IF EmailTaken(me.email)
           THEN /\ procs' = [procs EXCEPT ![p] = Idle]
                /\ UNCHANGED users
           ELSE /\ users' = users \cup {created}
                /\ procs' = [procs EXCEPT ![p].user = created, ![p].pc = "session",
                                          ![p].provisioned = TRUE]
    /\ UNCHANGED <<now, env, sessions, codes, issued, calls, loggedOut, menu>>

\* session.create({data: {userId: user.id, token, expiresAt}})
VerifyCreateSession(p) ==
    /\ procs[p].pc = "session"
    /\ LET me == procs[p]
           n == Cardinality(calls) + 1
           token == generateSessionToken(n)
       IN  /\ sessions' = sessions \cup
                 {[token |-> token, userId |-> me.user.id, expiresAt |-> now + SessionTTL]}
           /\ calls' = calls \cup
                 {[token |-> token, op |-> me.op, email |-> me.email, code |-> me.code,
                   codeId |-> me.vc.id, lookupAt |-> me.lookupAt, issuedAt |-> now,
                   user |-> me.user, provisioned |-> me.provisioned, n |-> n,
                   proc |-> p, status |-> "pending"]}
           /\ procs' = [procs EXCEPT ![p].pc = "delete"]
    /\ UNCHANGED <<now, env, users, codes, issued, loggedOut, menu>>

\* mutant: the used row is not deleted
VerifyDeleteCodeKeepsRow(p) ==
    /\ procs[p].pc = "delete"
    /\ LET mine == CHOOSE c \in calls : c.proc = p /\ c.status = "pending"
       IN  /\ calls' = (calls \ {mine}) \cup {[mine EXCEPT !.status = "OK", !.proc = 0]}
           /\ procs' = [procs EXCEPT ![p] = Idle]
    /\ UNCHANGED <<now, env, users, sessions, codes, issued, loggedOut, menu>>

\* mutant: deleting a row that is gone is no error (deleteMany)
VerifyDeleteCodeLenient(p) ==
    /\ procs[p].pc = "delete"
    /\ LET me == procs[p]
           mine == CHOOSE c \in calls : c.proc = p /\ c.status = "pending"
       IN  /\ codes' = {r \in codes : r.id # me.vc.id}
           /\ calls' = (calls \ {mine}) \cup {[mine EXCEPT !.status = "OK", !.proc = 0]}
           /\ procs' = [procs EXCEPT ![p] = Idle]
    /\ UNCHANGED <<now, env, users, sessions, issued, loggedOut, menu>>

\* verificationCode.delete({where: {id}}) throws when the row is gone
\* (INTERNAL_SERVER_ERROR); otherwise the request returns {token, user}
VerifyDeleteCode(p) ==
    /\ procs[p].pc = "delete"
    /\ LET me == procs[p]
           mine == CHOOSE c \in calls : c.proc = p /\ c.status = "pending"
           status == IF \E r \in codes : r.id = me.vc.id
                     THEN "OK" ELSE "INTERNAL_SERVER_ERROR"
       IN  /\ codes' = {r \in codes : r.id # me.vc.id}
           /\ calls' = (calls \ {mine}) \cup {[mine EXCEPT !.status = status, !.proc = 0]}
           /\ procs' = [procs EXCEPT ![p] = Idle]
    /\ UNCHANGED <<now, env, users, sessions, issued, loggedOut, menu>>

-----------------------------------------------------------------------------
(* The protected procedures: context, isAuthenticated gate, handler *)

\* mutant: the gate lets every request through
isAuthenticatedOpen(userId) == TRUE

\* isAuthenticated: if (!ctx.userId) throw UNAUTHORIZED
isAuthenticated(userId) == userId # NoUserId

\* auth.getCurrentUser: what the query answers to a request carrying authHeader
getCurrentUser(authHeader) ==
    LET userId == createTRPCContext(authHeader)
        user == findUserById(userId)
    IN  IF ~isAuthenticated(userId) THEN [status |-> "UNAUTHORIZED"]
        ELSE IF user = NoUser THEN [status |-> "NOT_FOUND"]
        ELSE [status |-> "OK", user |-> PublicUser(user)]

\* the handler of auth.getCurrentUser, behind the gate, with ctx.userId bound
getCurrentUserHandler(userId) ==
    LET user == findUserById(userId)
    IN  IF user = NoUser THEN [status |-> "NOT_FOUND"]
        ELSE [status |-> "OK", user |-> PublicUser(user)]

\* the query reads the store and changes nothing
GetCurrentUser(authHeader) ==
    /\ getCurrentUser(authHeader).status \in {"OK", "NOT_FOUND", "UNAUTHORIZED"}
    /\ UNCHANGED vars

\* auth.logout: what the mutation answers
logout(authHeader) ==
    IF ~isAuthenticated(createTRPCContext(authHeader))
    THEN [status |-> "UNAUTHORIZED"]
    ELSE [status |-> "OK", success |-> TRUE]

\* mutant: logout deletes nothing
sessionsAfterLogoutKeepsAll(authHeader) == sessions

\* mutant: logout deletes every session of the user
sessionsAfterLogoutAllDevices(authHeader) ==
    LET userId == createTRPCContext(authHeader)
    IN  IF isAuthenticated(userId)
        THEN {s \in sessions : s.userId # userId}
        ELSE sessions

\* auth.logout: the sessions left by session.deleteMany({where: {token}}),
\* which runs behind the gate and only for a usable token
sessionsAfterLogout(authHeader) ==
    LET token == ExtractToken(authHeader)
    IN  IF logout(authHeader).status = "OK" /\ UsableToken(token)
        THEN {s \in sessions : s.token # token.str}
        ELSE sessions

Logout(authHeader) ==
    /\ sessions' = sessionsAfterLogout(authHeader)
    /\ loggedOut' = IF logout(authHeader).status = "OK"
                       /\ UsableToken(ExtractToken(authHeader))
                    THEN loggedOut \cup {ExtractToken(authHeader).str}
                    ELSE loggedOut
    /\ UNCHANGED <<now, env, users, codes, procs, issued, calls, menu>>

\* the tokens a client can present: those a verification has returned, and
\* the text "undefined" a client without a token sends
PresentableTokens ==
    {k.token : k \in {c \in calls : c.status = "OK"}} \cup {UndefinedWord}

-----------------------------------------------------------------------------
(* The menu procedures.  Each is a protectedProcedure: the gate             *)
(* isAuthenticated runs on ctx.userId before the handler.  A procedure is   *)
(* an operator from ctx.userId and the input to the answer and the menu     *)
(* tables the call leaves; the handler runs as one step.                    *)

\* an optional input that the request leaves out
Undefined == "undefined"

\* a nullable input given as null
Null == "null"

\* categoryIds: z.array(z.string()).optional()
NoCategoryIds == [given |-> FALSE, ids |-> <<>>]
CategoryIds(ids) == [given |-> TRUE, ids |-> ids]

\* a call that throws: the answer is the error code, the tables stay
Throw(code) == [status |-> code, menu |-> menu]

Return(m) == [status |-> "OK", menu |-> m]

Range(seq) == {seq[i] : i \in DOMAIN seq}

\* ON DELETE CASCADE of DishCategory_dishId_fkey and DishCategory_categoryId_fkey
LinksWithout(links, dishIds, categoryIds) ==
    {l \in links : l.dishId \notin dishIds /\ l.categoryId \notin categoryIds}

\* mutant: no cascade from the restaurant to its dishes
WithoutRestaurantsKeepsDishes(m, ids) ==
    LET cats == {c \in m.categories : c.restaurantId \in ids}
    IN  [m EXCEPT !.restaurants = {r \in @ : r.id \notin ids},
                  !.categories = @ \ cats,
                  !.dishCategories = LinksWithout(@, {}, {c.id : c \in cats})]

\* ON DELETE CASCADE of Category_restaurantId_fkey and Dish_restaurantId_fkey:
\* the tables m without the restaurants ids and all that hangs on them
WithoutRestaurants(m, ids) ==
    LET cats == {c \in m.categories : c.restaurantId \in ids}
        ds == {d \in m.dishes : d.restaurantId \in ids}
    IN  [m EXCEPT !.restaurants = {r \in @ : r.id \notin ids},
                  !.categories = @ \ cats,
                  !.dishes = @ \ ds,
                  !.dishCategories =
                      LinksWithout(@, {d.id : d \in ds}, {c.id : c \in cats})]

\* mutant: the owner is not part of the where clause
findRestaurantOfAnyone(id, userId) == {r \in menu.restaurants : r.id = id}

\* restaurant.findFirst({where: {id, userId: ctx.userId}})
findOwnedRestaurant(id, userId) ==
    {r \in menu.restaurants : r.id = id /\ r.userId = userId}

\* the userId of the restaurant with this id (include: {restaurant: true})
OwnerOfRestaurant(id) ==
    IF \E r \in menu.restaurants : r.id = id
    THEN (CHOOSE r \in menu.restaurants : r.id = id).userId
    ELSE NoUserId

\* restaurantRouter.create
restaurantCreate(userId, name, location) ==
    LET id == menu.created.restaurant + 1
        restaurant == [id |-> id, name |-> name, location |-> location,
                       userId |-> userId]
    IN  IF ~isAuthenticated(userId) THEN Throw("UNAUTHORIZED")
        ELSE Return([menu EXCEPT !.restaurants = @ \cup {restaurant},
                                 !.created.restaurant = id])

\* restaurantRouter.getAll: the caller's restaurants
restaurantGetAll(userId) ==
    IF ~isAuthenticated(userId) THEN [status |-> "UNAUTHORIZED"]
    ELSE [status |-> "OK", items |-> {r \in menu.restaurants : r.userId = userId}]

\* restaurantRouter.getById
restaurantGetById(userId, id) ==
    IF ~isAuthenticated(userId) THEN [status |-> "UNAUTHORIZED"]
    ELSE IF findOwnedRestaurant(id, userId) = {} THEN [status |-> "NOT_FOUND"]
    ELSE [status |-> "OK", items |-> findOwnedRestaurant(id, userId)]

\* restaurantRouter.update: data holds the name and the location, each a
\* string or left out
restaurantUpdate(userId, id, data) ==
    LET patch(r) == [r EXCEPT !.name = IF data.name = Undefined THEN @ ELSE data.name,
                              !.location = IF data.location = Undefined THEN @
                                           ELSE data.location]
    IN  IF ~isAuthenticated(userId) THEN Throw("UNAUTHORIZED")
        ELSE IF findOwnedRestaurant(id, userId) = {} THEN Throw("NOT_FOUND")
        ELSE Return([menu EXCEPT !.restaurants =
                        {IF r.id = id THEN patch(r) ELSE r : r \in @}])

\* restaurantRouter.delete
restaurantDelete(userId, id) ==
    IF ~isAuthenticated(userId) THEN Throw("UNAUTHORIZED")
    ELSE IF findOwnedRestaurant(id, userId) = {} THEN Throw("NOT_FOUND")
    ELSE Return(WithoutRestaurants(menu, {id}))

\* restaurantRouter.getPublicMenu, a publicProcedure: no gate
restaurantGetPublicMenu(userId, id) ==
    IF ~\E r \in menu.restaurants : r.id = id THEN [status |-> "NOT_FOUND"]
    ELSE [status |-> "OK",
          categories |-> {c \in menu.categories : c.restaurantId = id}]

\* categoryRouter.create
categoryCreate(userId, restaurantId, name) ==
    LET id == menu.created.category + 1
        category == [id |-> id, name |-> name, restaurantId |-> restaurantId]
    IN  IF ~isAuthenticated(userId) THEN Throw("UNAUTHORIZED")
        ELSE IF findOwnedRestaurant(restaurantId, userId) = {} THEN Throw("NOT_FOUND")
        ELSE Return([menu EXCEPT !.categories = @ \cup {category},
                                 !.created.category = id])

\* categoryRouter.getAll
categoryGetAll(userId, restaurantId) ==
    IF ~isAuthenticated(userId) THEN [status |-> "UNAUTHORIZED"]
    ELSE IF findOwnedRestaurant(restaurantId, userId) = {} THEN [status |-> "NOT_FOUND"]
    ELSE [status |-> "OK",
          items |-> {c \in menu.categories : c.restaurantId = restaurantId}]

\* category.findUnique({where: {id}, include: {restaurant: true}}) and the
\* test !category || category.restaurant.userId !== ctx.userId
findOwnedCategory(id, userId) ==
    {c \in menu.categories : c.id = id /\ OwnerOfRestaurant(c.restaurantId) = userId}

\* categoryRouter.update
categoryUpdate(userId, id, name) ==
    IF ~isAuthenticated(userId) THEN Throw("UNAUTHORIZED")
    ELSE IF findOwnedCategory(id, userId) = {} THEN Throw("NOT_FOUND")
    ELSE Return([menu EXCEPT !.categories =
                    {IF c.id = id THEN [c EXCEPT !.name = name] ELSE c : c \in @}])

\* categoryRouter.delete
categoryDelete(userId, id) ==
    IF ~isAuthenticated(userId) THEN Throw("UNAUTHORIZED")
    ELSE IF findOwnedCategory(id, userId) = {} THEN Throw("NOT_FOUND")
    ELSE Return([menu EXCEPT !.categories = {c \in @ : c.id # id},
                             !.dishCategories = LinksWithout(@, {}, {id})])

\* mutant: the restaurant is not part of the where clause
findCategoriesAnywhere(m, categoryIds, restaurantId) ==
    {c \in m.categories : c.id \in Range(categoryIds)}

\* category.findMany({where: {id: {in: categoryIds}, restaurantId}})
findCategoriesOf(m, categoryIds, restaurantId) ==
    {c \in m.categories : c.id \in Range(categoryIds) /\ c.restaurantId = restaurantId}

\* dishCategory.createMany({data: categoryIds.map(categoryId => ({dishId, categoryId}))})
createLinks(m, dishId, categoryIds) ==
    [m EXCEPT !.dishCategories =
        @ \cup {[dishId |-> dishId, categoryId |-> c] : c \in Range(categoryIds)}]

\* dishRouter.create: the dish is created, then the categories are counted,
\* then the links are created
dishCreate(userId, restaurantId, name, categoryIds) ==
    LET id == menu.created.dish + 1
        dish == [id |-> id, name |-> name, description |-> Null,
                 restaurantId |-> restaurantId]
        withDish == [menu EXCEPT !.dishes = @ \cup {dish}, !.created.dish = id]
        categories == findCategoriesOf(withDish, categoryIds.ids, restaurantId)
    IN  IF ~isAuthenticated(userId) THEN Throw("UNAUTHORIZED")
        ELSE IF findOwnedRestaurant(restaurantId, userId) = {} THEN Throw("NOT_FOUND")
        ELSE IF categoryIds.given /\ Len(categoryIds.ids) > 0
             THEN IF Cardinality(categories) # Len(categoryIds.ids)
                  THEN [status |-> "BAD_REQUEST", menu |-> withDish]
                  ELSE Return(createLinks(withDish, id, categoryIds.ids))
        ELSE Return(withDish)

\* dish.findUnique({where: {id}, include: {restaurant: true}}) and the test
\* !dish || dish.restaurant.userId !== ctx.userId
findOwnedDish(id, userId) ==
    {d \in menu.dishes : d.id = id /\ OwnerOfRestaurant(d.restaurantId) = userId}

\* dishRouter.update: data holds the name (a string or left out) and the
\* description (a string, null or left out); the dish is updated, then its
\* links are deleted, then the categories are counted, then the links created
dishUpdate(userId, id, data, categoryIds) ==
    LET dish == CHOOSE d \in findOwnedDish(id, userId) : TRUE
        patch(d) == [d EXCEPT !.name = IF data.name = Undefined THEN @ ELSE data.name,
                              !.description = IF data.description = Undefined THEN @
                                              ELSE data.description]
        updated == [menu EXCEPT !.dishes = {IF d.id = id THEN patch(d) ELSE d : d \in @}]
        unlinked == [updated EXCEPT !.dishCategories = LinksWithout(@, {id}, {})]
        categories == findCategoriesOf(unlinked, categoryIds.ids, dish.restaurantId)
    IN  IF ~isAuthenticated(userId) THEN Throw("UNAUTHORIZED")
        ELSE IF findOwnedDish(id, userId) = {} THEN Throw("NOT_FOUND")
        ELSE IF ~categoryIds.given THEN Return(updated)
        ELSE IF Len(categoryIds.ids) = 0 THEN Return(unlinked)
        ELSE IF Cardinality(categories) # Len(categoryIds.ids)
             THEN [status |-> "BAD_REQUEST", menu |-> unlinked]
        ELSE Return(createLinks(unlinked, id, categoryIds.ids))

\* dishRouter.delete
dishDelete(userId, id) ==
    IF ~isAuthenticated(userId) THEN Throw("UNAUTHORIZED")
    ELSE IF findOwnedDish(id, userId) = {} THEN Throw("NOT_FOUND")
    ELSE Return([menu EXCEPT !.dishes = {d \in @ : d.id # id},
                             !.dishCategories = LinksWithout(@, {id}, {})])

\* dishRouter.getByRestaurant
dishGetByRestaurant(userId, restaurantId) ==
    IF ~isAuthenticated(userId) THEN [status |-> "UNAUTHORIZED"]
    ELSE IF findOwnedRestaurant(restaurantId, userId) = {} THEN [status |-> "NOT_FOUND"]
    ELSE [status |-> "OK",
          items |-> {d \in menu.dishes : d.restaurantId = restaurantId}]

-----------------------------------------------------------------------------

AllIdle == \A p \in Procs : procs[p].pc = "idle"

\* the steps of the verification requests in flight
VerifyStep ==
    \/ \E p \in Procs : VerifyFindUser(p)
    \/ \E p \in Procs : RegisterUpsertUser(p)
    \/ \E p \in Procs : LoginProvisionUser(p)
    \/ \E p \in Procs : VerifyCreateSession(p)
    \/ \E p \in Procs : VerifyDeleteCode(p)

\* concurrent requests over the lifetime of a code
Next ==
    \/ ServerOnly /\ AllIdle /\ TickQuantum
    \/ ServerOnly /\ \E email \in Emails, offset \in RandomOffsets, mail \in MailOutcomes :
         SendVerificationCode(email, offset, mail)
    \/ ServerOnly /\ \E p \in Procs : VerifyAndRegisterStart(p)
    \/ ServerOnly /\ \E p \in Procs : VerifyAndLoginStart(p)
    \/ ServerOnly /\ VerifyStep
    \/ ServerOnly /\ \E t \in PresentableTokens : GetCurrentUser(Bearer(t))
    \/ ServerOnly /\ \E t \in PresentableTokens : Logout(Bearer(t))

Spec == Init /\ [][Next]_vars

\* one verification at a time, over the lifetime of a session, with every
\* form of Authorization header
NextLong ==
    \/ ServerOnly /\ AllIdle /\ TickQuantum
    \/ ServerOnly /\ AllIdle /\ TickLeap
    \/ ServerOnly /\ \E email \in Emails, offset \in RandomOffsets, mail \in MailOutcomes :
         SendVerificationCode(email, offset, mail)
    \/ ServerOnly /\ \E p \in Procs : AllIdle /\ VerifyAndRegisterStart(p)
    \/ ServerOnly /\ \E p \in Procs : AllIdle /\ VerifyAndLoginStart(p)
    \/ ServerOnly /\ VerifyStep
    \/ ServerOnly /\ \E t \in PresentableTokens : GetCurrentUser(Bearer(t))
    \/ ServerOnly /\ \E h \in HeadersFor(PresentableTokens) : Logout(h)

LongSpec == Init /\ [][NextLong]_vars

-----------------------------------------------------------------------------
(* The menu requests *)

\* ids a request may name: those of the rows a behaviour can create
RestaurantIds == 1..MaxRestaurants
CategoryIdValues == 1..MaxCategories
DishIds == 1..MaxDishes

RestaurantNames == {"Agnes Restaurant"}
Locations == {"Mumbai, India"}
RestaurantPatches == { [name |-> "Bistro", location |-> Undefined] }

CategoryNames == {"Starters"}
CategoryRenames == {"Mains"}

DishNames == {"Paneer Tikka"}
DishPatches == { [name |-> "Chicken Wings", description |-> Undefined] }

RECURSIVE SeqsUpTo(_, _)
SeqsUpTo(S, n) ==
    IF n = 0 THEN {<<>>}
    ELSE SeqsUpTo(S, n - 1) \cup
         {Append(q, x) : q \in {r \in SeqsUpTo(S, n - 1) : Len(r) = n - 1}, x \in S}

\* the categoryIds a dish request may carry: left out, empty, one id, two
\* ids (also the same id twice)
CategoryIdInputs ==
    {NoCategoryIds} \cup {CategoryIds(q) : q \in SeqsUpTo(CategoryIdValues, MaxCategoryIds)}

\* the headers of the menu requests: the client's header over a token it
\* holds, or over the text "undefined" when it holds none
MenuHeaders == {Bearer(t) : t \in PresentableTokens}

authOnly == <<now, env, users, sessions, codes, procs, issued, calls, loggedOut>>

RestaurantCreate(authHeader) ==
    /\ menu.created.restaurant < MaxRestaurants
    /\ \E name \in RestaurantNames, location \in Locations :
         menu' = restaurantCreate(createTRPCContext(authHeader), name, location).menu
    /\ UNCHANGED authOnly

RestaurantUpdate(authHeader) ==
    /\ \E id \in RestaurantIds, data \in RestaurantPatches :
         menu' = restaurantUpdate(createTRPCContext(authHeader), id, data).menu
    /\ UNCHANGED authOnly

RestaurantDelete(authHeader) ==
    /\ \E id \in RestaurantIds :
         menu' = restaurantDelete(createTRPCContext(authHeader), id).menu
    /\ UNCHANGED authOnly

CategoryCreate(authHeader) ==
    /\ menu.created.category < MaxCategories
    /\ \E restaurantId \in RestaurantIds, name \in CategoryNames :
         menu' = categoryCreate(createTRPCContext(authHeader), restaurantId, name).menu
    /\ UNCHANGED authOnly

CategoryUpdate(authHeader) ==
    /\ \E id \in CategoryIdValues, name \in CategoryRenames :
         menu' = categoryUpdate(createTRPCContext(authHeader), id, name).menu
    /\ UNCHANGED authOnly

CategoryDelete(authHeader) ==
    /\ \E id \in CategoryIdValues :
         menu' = categoryDelete(createTRPCContext(authHeader), id).menu
    /\ UNCHANGED authOnly

DishCreate(authHeader) ==
    /\ menu.created.dish < MaxDishes
    /\ \E restaurantId \in RestaurantIds, name \in DishNames,
          categoryIds \in CategoryIdInputs :
         menu' = dishCreate(createTRPCContext(authHeader), restaurantId, name,
                            categoryIds).menu
    /\ UNCHANGED authOnly

DishUpdate(authHeader) ==
    /\ \E id \in DishIds, data \in DishPatches, categoryIds \in CategoryIdInputs :
         menu' = dishUpdate(createTRPCContext(authHeader), id, data, categoryIds).menu
    /\ UNCHANGED authOnly

DishDelete(authHeader) ==
    /\ \E id \in DishIds :
         menu' = dishDelete(createTRPCContext(authHeader), id).menu
    /\ UNCHANGED authOnly

\* the queries read the tables and change nothing
MenuQuery(authHeader) ==
    /\ \E id \in RestaurantIds :
         LET userId == createTRPCContext(authHeader)
         IN  /\ restaurantGetAll(userId).status \in {"OK", "UNAUTHORIZED"}
             /\ restaurantGetById(userId, id).status \in {"OK", "NOT_FOUND", "UNAUTHORIZED"}
             /\ categoryGetAll(userId, id).status \in {"OK", "NOT_FOUND", "UNAUTHORIZED"}
             /\ dishGetByRestaurant(userId, id).status \in {"OK", "NOT_FOUND", "UNAUTHORIZED"}
             /\ restaurantGetPublicMenu(userId, id).status \in {"OK", "NOT_FOUND"}
    /\ UNCHANGED vars

\* mutant: the sessions of the deleted user stay
DeleteUserKeepsSessions(id) ==
    /\ \E u \in users : u.id = id
    /\ users' = {u \in users : u.id # id}
    /\ menu' = WithoutRestaurants(menu, {r.id : r \in {q \in menu.restaurants : q.userId = id}})
    /\ UNCHANGED <<now, env, sessions, codes, procs, issued, calls, loggedOut>>

\* a user row is deleted in the database, outside the application: the
\* foreign keys Session_userId_fkey and Restaurant_userId_fkey cascade
DeleteUser(id) ==
    /\ \E u \in users : u.id = id
    /\ users' = {u \in users : u.id # id}
    /\ sessions' = {s \in sessions : s.userId # id}
    /\ menu' = WithoutRestaurants(menu, {r.id : r \in {q \in menu.restaurants : q.userId = id}})
    /\ UNCHANGED <<now, env, codes, procs, issued, calls, loggedOut>>

\* the store after al@x.io and 7b@y.co have each asked for a code and logged
\* in with it: two provisioned users, each with one session
SignedInUser(n, email) ==
    [id |-> n, email |-> email, name |-> Capitalize(SplitAtFirst(email)),
     country |-> "Unknown"]

SignedInCall(n, email) ==
    [token |-> generateSessionToken(n), op |-> "verifyAndLogin", email |-> email,
     code |-> generateVerificationCode(0), codeId |-> n, lookupAt |-> 0,
     issuedAt |-> 0, user |-> SignedInUser(n, email), provisioned |-> TRUE,
     n |-> n, proc |-> 0, status |-> "OK"]

SignedInEmails == <<<<"a","l","@","x",".","i","o">>, <<"7","b","@","y",".","c","o">>>>

SignedIn ==
    /\ now = 0
    /\ env = [SEND_VERIFICATION_CODE |-> FALSE, RESEND_API_KEY |-> FALSE]
    /\ users = {SignedInUser(n, SignedInEmails[n]) : n \in DOMAIN SignedInEmails}
    /\ sessions = {[token |-> generateSessionToken(n), userId |-> n,
                    expiresAt |-> SessionTTL] : n \in DOMAIN SignedInEmails}
    /\ codes = {}
    /\ procs = [p \in Procs |-> Idle]
    /\ issued = {[id |-> n, email |-> SignedInEmails[n],
                  code |-> generateVerificationCode(0),
                  expiresAt |-> CodeTTLMinutes, createdAt |-> 0]
                 : n \in DOMAIN SignedInEmails}
    /\ calls = {SignedInCall(n, SignedInEmails[n]) : n \in DOMAIN SignedInEmails}
    /\ loggedOut = {}

MenuInit == SignedIn /\ menu = EmptyMenu /\ client = ClientClosed /\ pager = NoWalk

\* the menu requests of two signed-in users, with logout and the deletion of
\* a user
NextMenu ==
    \/ ServerOnly /\ \E h \in MenuHeaders : RestaurantCreate(h)
    \/ ServerOnly /\ \E h \in MenuHeaders : RestaurantUpdate(h)
    \/ ServerOnly /\ \E h \in MenuHeaders : RestaurantDelete(h)
    \/ ServerOnly /\ \E h \in MenuHeaders : CategoryCreate(h)
    \/ ServerOnly /\ \E h \in MenuHeaders : CategoryUpdate(h)
    \/ ServerOnly /\ \E h \in MenuHeaders : CategoryDelete(h)
    \/ ServerOnly /\ \E h \in MenuHeaders : DishCreate(h)
    \/ ServerOnly /\ \E h \in MenuHeaders : DishUpdate(h)
    \/ ServerOnly /\ \E h \in MenuHeaders : DishDelete(h)
    \/ ServerOnly /\ \E h \in MenuHeaders : MenuQuery(h)
    \/ ServerOnly /\ \E h \in MenuHeaders : GetCurrentUser(h)
    \/ ServerOnly /\ \E h \in MenuHeaders : Logout(h)
    \/ ServerOnly /\ \E id \in {u.id : u \in users} : DeleteUser(id)

MenuSpec == MenuInit /\ [][NextMenu]_vars

\* the server started with or without RESEND_API_KEY; SEND_VERIFICATION_CODE
\* is not among the keys env.mjs reads from process.env, so that the schema
\* default stands
MailInit ==
    /\ now = 0
    /\ env \in [SEND_VERIFICATION_CODE : {FALSE}, RESEND_API_KEY : BOOLEAN]
    /\ users = {}
    /\ sessions = {}
    /\ codes = {}
    /\ procs = [p \in Procs |-> Idle]
    /\ issued = {}
    /\ calls = {}
    /\ loggedOut = {}
    /\ menu = EmptyMenu
    /\ client = ClientClosed
    /\ pager = NoWalk

\* codes are asked for over the lifetime of a code
NextMail ==
    \/ ServerOnly /\ TickQuantum
    \/ ServerOnly /\ \E email \in Emails, offset \in RandomOffsets, mail \in MailOutcomes :
         SendVerificationCode(email, offset, mail)

MailSpec == MailInit /\ [][NextMail]_vars

-----------------------------------------------------------------------------
(* Vocabulary of the properties, in terms of the histories *)

Succeeded == {k \in calls : k.status = "OK"}

\* the rows issued for (email, code) that no successful verification has
\* consumed and that are younger than the code lifetime
Unconsumed(email, code) ==
    {r \in issued : /\ r.email = email
                    /\ r.code = code
                    /\ now < r.createdAt + CodeTTLMinutes
                    /\ ~\E k \in Succeeded : k.codeId = r.id}

-----------------------------------------------------------------------------
(* C1 *)

\* C1 as claimed: after a verification with (E, c) has succeeded, every
\* later verification with the same (E, c) fails; no two verifications
\* with the same email and code value both succeed.
C1_SecondUseAlwaysFails ==
    \A k1, k2 \in Succeeded :
        (k1.email = k2.email /\ k1.code = k2.code) => k1 = k2

\* C1 as amended: with verifications running one after the other, each code
\* row issued is consumed by at most one successful verification; a
\* verification that found its row succeeds; and a verification with (E, c)
\* is answered UNAUTHORIZED exactly when no unexpired row issued for (E, c)
\* is left unconsumed.
C1_EachRowUsedOnce ==
    /\ \A k1, k2 \in Succeeded : k1.codeId = k2.codeId => k1 = k2
    /\ \A k \in calls : k.status \in {"pending", "OK"}
    /\ \A email \in Emails, code \in InputCodes :
         VerifyLookupStatus(email, code) = "UNAUTHORIZED" <=> Unconsumed(email, code) = {}

\* a code has been used once, is not expired, and a second verification
\* with the same email and code is refused
C1_Witness ==
    \E k \in Succeeded :
        /\ \E r \in issued : r.id = k.codeId /\ now < r.expiresAt
        /\ VerifyLookupStatus(k.email, k.code) = "UNAUTHORIZED"

-----------------------------------------------------------------------------
(* C2 *)

\* C2: every verification that got past its code lookup, and so every
\* session in the store, rests on a row issued for exactly the supplied
\* email and code, looked up strictly before the row's expiry, which is its
\* issue time plus ten minutes; and a verification for which no such row is
\* stored is answered UNAUTHORIZED.
C2_OnlyValidCodeVerifies ==
    /\ \A r \in issued : r.expiresAt = r.createdAt + CodeTTLMinutes
    /\ \A k \in calls :
         \E r \in issued : /\ r.id = k.codeId
                           /\ r.email = k.email
                           /\ r.code = k.code
                           /\ k.lookupAt < r.createdAt + CodeTTLMinutes
    /\ \A s \in sessions : \E k \in calls : k.token = s.token
    /\ \A email \in Emails, code \in InputCodes :
         (\A r \in codes : r.email = email /\ r.code = code
                              => now >= r.createdAt + CodeTTLMinutes)
            => VerifyLookupStatus(email, code) = "UNAUTHORIZED"

\* an unused code has reached its expiry and is refused, while the other
\* code of the run has produced a session
C2_Witness ==
    /\ \E r \in codes : /\ now = r.expiresAt
                        /\ VerifyLookupStatus(r.email, r.code) = "UNAUTHORIZED"
    /\ Succeeded # {}

-----------------------------------------------------------------------------
(* C3 *)

\* by the histories: the session of call k is younger than thirty days and
\* no logout has deleted it
Live(k) == k.token \notin loggedOut /\ now < k.issuedAt + SessionTTL

\* C3: a token returned by a successful verification authenticates
\* getCurrentUser exactly while fewer than thirty days have passed since it
\* was issued and no logout has been made with it; from then on
\* getCurrentUser with it is answered UNAUTHORIZED.
C3_TokenLifetime ==
    \A k \in Succeeded :
        getCurrentUser(Bearer(k.token)).status =
            IF Live(k) THEN "OK" ELSE "UNAUTHORIZED"

\* one returned token has been logged out, another has reached its thirtieth
\* day, and both are refused
C3_Witness ==
    \E k1, k2 \in Succeeded :
        /\ k1.token \in loggedOut
        /\ k2.token \notin loggedOut
        /\ now = k2.issuedAt + SessionTTL
        /\ getCurrentUser(Bearer(k1.token)).status = "UNAUTHORIZED"
        /\ getCurrentUser(Bearer(k2.token)).status = "UNAUTHORIZED"

-----------------------------------------------------------------------------
(* C4 *)

Finished(k) == k.status # "pending"

\* C4 as claimed: two concurrent verifyAndLogin calls that both found the
\* same code row both succeed, each returning a token.
C4_BothCallsSucceed ==
    \A k1, k2 \in calls :
        (/\ k1 # k2
         /\ k1.op = "verifyAndLogin" /\ k2.op = "verifyAndLogin"
         /\ k1.codeId = k2.codeId
         /\ Finished(k1) /\ Finished(k2))
            => (k1.status = "OK" /\ k2.status = "OK")

\* C4 as amended: concurrent verifications can both find the same code row
\* and both create a session, but at most one of them returns a token: every
\* other one fails with INTERNAL_SERVER_ERROR on deleting the row that the
\* successful one has deleted, and leaves its session in the store.
C4_OneCallReturns ==
    /\ \A k1, k2 \in Succeeded : k1.codeId = k2.codeId => k1 = k2
    /\ \A k \in calls :
         /\ k.status \in {"pending", "OK", "INTERNAL_SERVER_ERROR"}
         /\ k.status = "INTERNAL_SERVER_ERROR"
               => \E w \in Succeeded : w.codeId = k.codeId /\ w # k
         /\ k.token \in loggedOut \/ \E s \in sessions : s.token = k.token

\* two verifyAndLogin calls found the same row; one returned its token, the
\* other failed, and the sessions of both are in the store
C4_Witness ==
    \E k1, k2 \in calls :
        /\ k1.op = "verifyAndLogin" /\ k2.op = "verifyAndLogin"
        /\ k1.codeId = k2.codeId
        /\ k1.status = "OK"
        /\ k2.status = "INTERNAL_SERVER_ERROR"
        /\ \E s \in sessions : s.token = k1.token
        /\ \E s \in sessions : s.token = k2.token

-----------------------------------------------------------------------------
(* C5 *)

\* the header forms out of which the server reads the token t
CarriesToken(form) == form \in {"bearer", "loose", "bare"}

LiveToken(t) == \E k \in calls : k.token = t /\ Live(k)

\* C5 as claimed: logout with an already logged-out token returns
\* {success: true} without an error.
C5_LogoutAlwaysSucceeds ==
    \A t \in loggedOut : logout(Bearer(t)).status = "OK"

\* C5 as amended: logout with an absent, malformed or already invalidated
\* (logged-out or expired) token is answered UNAUTHORIZED and deletes no
\* session; logout returns {success: true} only for a header that carries
\* the token of a live session, and then deletes exactly that session.
C5_LogoutNeedsLiveToken ==
    /\ logout(AbsentHeader).status = "UNAUTHORIZED"
    /\ sessionsAfterLogout(AbsentHeader) = sessions
    /\ \A form \in HeaderForms, t \in AllTokens \cup {UndefinedWord} :
         LET h == HeaderOf(form, t)
         IN  IF CarriesToken(form) /\ LiveToken(t)
             THEN /\ logout(h) = [status |-> "OK", success |-> TRUE]
                  /\ sessionsAfterLogout(h) = {s \in sessions : s.token # t}
             ELSE /\ logout(h).status = "UNAUTHORIZED"
                  /\ sessionsAfterLogout(h) = sessions

\* a second logout with a logged-out token, and a logout with an expired
\* token, are both refused
C5_Witness ==
    \E k1, k2 \in Succeeded :
        /\ k1.token \in loggedOut
        /\ logout(Bearer(k1.token)).status = "UNAUTHORIZED"
        /\ k2.token \notin loggedOut
        /\ now >= k2.issuedAt + SessionTTL
        /\ logout(Bearer(k2.token)).status = "UNAUTHORIZED"
        /\ \E s \in sessions : s.token = k2.token

-----------------------------------------------------------------------------
(* C6 *)

\* with verifications running one after the other: a verifyAndRegister for
\* the email of call k has written the user after k returned
OverwrittenSince(k) ==
    \/ \E k2 \in calls : /\ k2.op = "verifyAndRegister"
                         /\ k2.email = k.email
                         /\ k2.n > k.n
    \/ \E p \in Procs : /\ procs[p].op = "verifyAndRegister"
                        /\ procs[p].email = k.email
                        /\ procs[p].pc = "session"

\* C6 as claimed: while the session is valid, getCurrentUser with the
\* returned token answers the id, email, name and country the verification
\* returned.
C6_SameUserAsReturned ==
    \A k \in Succeeded :
        /\ k.user.email = k.email
        /\ Live(k) => getCurrentUser(Bearer(k.token)) =
                          [status |-> "OK", user |-> PublicUser(k.user)]

\* C6 as amended: the returned user has the email verified, and while the
\* session is valid getCurrentUser with the returned token answers the same
\* user id and email; name and country are those the verification returned
\* unless a later verifyAndRegister for that email has overwritten them.
C6_SameUserIdentity ==
    \A k \in Succeeded :
        /\ k.user.email = k.email
        /\ Live(k) =>
             LET r == getCurrentUser(Bearer(k.token))
             IN  /\ r.status = "OK"
                 /\ r.user.id = k.user.id
                 /\ r.user.email = k.email
                 /\ ~OverwrittenSince(k) => r.user = PublicUser(k.user)

\* a login returned the provisioned user, a later registration renamed it,
\* and getCurrentUser with the login's token answers the new name under the
\* same id; the other call's token answers exactly what that call returned
C6_Witness ==
    \E k1, k2 \in Succeeded :
        /\ Live(k1) /\ Live(k2)
        /\ OverwrittenSince(k1)
        /\ getCurrentUser(Bearer(k1.token)).user.id = k1.user.id
        /\ getCurrentUser(Bearer(k1.token)).user.name # k1.user.name
        /\ ~OverwrittenSince(k2)
        /\ getCurrentUser(Bearer(k2.token)).user = PublicUser(k2.user)

-----------------------------------------------------------------------------
(* C7 *)

UniqueEmail == \A u1, u2 \in users : u1.email = u2.email => u1 = u2

\* the write of a verifyAndRegister whose lookup found a user: the row keeps
\* its id and email, takes the name and country supplied, and no row is added
OverwriteStep ==
    \A p \in Procs :
        (/\ procs[p].pc = "upsert"
         /\ procs[p].user # NoUser
         /\ procs'[p].pc # "upsert")
            => /\ procs'[p].pc = "session"
               /\ Cardinality(users') = Cardinality(users)
               /\ \E u \in users' : /\ u.id = procs[p].user.id
                                    /\ u.email = procs[p].email
                                    /\ u.name = procs[p].profile.name
                                    /\ u.country = procs[p].profile.country

\* C7: verifyAndRegister for an email that has a user overwrites the name
\* and country of that user and creates no second user; and in every state
\* of every interleaving of concurrent verifications no two users share an
\* email.
C7_OneUserPerEmail == []UniqueEmail /\ [][OverwriteStep]_vars

\* a user first provisioned by verifyAndLogin carries the name a later
\* verifyAndRegister supplied, and is the only user of its email
C7_Witness ==
    \E k1, k2 \in calls :
        /\ k1.provisioned
        /\ k2.op = "verifyAndRegister"
        /\ k2.email = k1.email
        /\ k2.user.id = k1.user.id
        /\ k2.user.name # k1.user.name
        /\ \E u \in users : u = k2.user
        /\ Cardinality({u \in users : u.email = k1.email}) = 1

-----------------------------------------------------------------------------
(* C8 *)

\* the local part of each address, first character in upper case
ExpectedName(email) ==
    CASE email = <<"a","l","@","x",".","i","o">> -> <<"A","l">>
      [] email = <<"7","b","@","y",".","c","o">> -> <<"7","b">>

-----------------------------------------------------------------------------
(* C9 *)

\* by the histories: the user of the live session with token t, if any
ExpectedIdentity(t) ==
    IF LiveToken(t)
    THEN (CHOOSE k \in calls : k.token = t /\ Live(k)).user.id
    ELSE NoUserId

\* C9: for a header of the form Bearer <token>, the context binds the user
\* of the session whose token equals the token presented and whose expiry
\* lies strictly after now, and binds nobody in every other case (no such
\* session, a token that differs in one character, an expired or logged-out
\* session); for every header the context is built, with a user id or with
\* none, and no error is raised.
C9_ContextBindsLiveSession ==
    /\ \A t \in AllTokens \cup {UndefinedWord} :
         /\ createTRPCContext(HeaderOf("bearer", t)) = ExpectedIdentity(t)
         /\ createTRPCContext(HeaderOf("loose", t)) = ExpectedIdentity(t)
         /\ createTRPCContext(HeaderOf("truncated", t)) = NoUserId
    /\ \A h \in Headers :
         createTRPCContext(h) \in {NoUserId} \cup {u.id : u \in users}

\* a session at the instant of its expiry binds nobody, while the session
\* row is still in the store
C9_Witness ==
    \E k \in Succeeded :
        /\ now = k.issuedAt + SessionTTL
        /\ \E s \in sessions : s.token = k.token /\ s.expiresAt = now
        /\ createTRPCContext(Bearer(k.token)) = NoUserId

-----------------------------------------------------------------------------
(* C10 *)

\* C10 as claimed: a request whose Authorization header is absent or is not
\* of the form Bearer <token> (the token alone, the word and the token run
\* together, a repeated header) is anonymous, also when the header text is
\* a valid session token.
C10_MalformedHeaderIsAnonymous ==
    /\ createTRPCContext(AbsentHeader) = NoUserId
    /\ \A t \in AllTokens, form \in {"bare", "glued", "array"} :
         createTRPCContext(HeaderOf(form, t)) = NoUserId

-----------------------------------------------------------------------------
(* Inputs over which the properties of the menu quantify *)

UserIds == {u.id : u \in users}

AnyRestaurantPatch ==
    [name : {Undefined, "Bistro"}, location : {Undefined, "Pune, India"}]

AnyDishPatch ==
    [name : {Undefined, "Chicken Wings"}, description : {Undefined, Null, "Grilled"}]

-----------------------------------------------------------------------------
(* C11 *)

\* every mutation of the menu, called with ctx.userId = userId, throws code
\* and leaves the tables as they are
MenuMutationsThrow(userId, code) ==
    /\ \A name \in RestaurantNames, location \in Locations :
         restaurantCreate(userId, name, location) = Throw(code)
    /\ \A id \in RestaurantIds :
         /\ \A data \in AnyRestaurantPatch : restaurantUpdate(userId, id, data) = Throw(code)
         /\ restaurantDelete(userId, id) = Throw(code)
         /\ \A name \in CategoryNames : categoryCreate(userId, id, name) = Throw(code)
         /\ \A name \in DishNames, categoryIds \in CategoryIdInputs :
              dishCreate(userId, id, name, categoryIds) = Throw(code)
    /\ \A id \in CategoryIdValues :
         /\ \A name \in CategoryRenames : categoryUpdate(userId, id, name) = Throw(code)
         /\ categoryDelete(userId, id) = Throw(code)
    /\ \A id \in DishIds :
         /\ \A data \in AnyDishPatch, categoryIds \in CategoryIdInputs :
              dishUpdate(userId, id, data, categoryIds) = Throw(code)
         /\ dishDelete(userId, id) = Throw(code)

\* every protected query, called with ctx.userId = userId, throws code
MenuQueriesThrow(userId, code) ==
    /\ restaurantGetAll(userId) = [status |-> code]
    /\ \A id \in RestaurantIds :
         /\ restaurantGetById(userId, id) = [status |-> code]
         /\ categoryGetAll(userId, id) = [status |-> code]
         /\ dishGetByRestaurant(userId, id) = [status |-> code]

\* C11: every protected procedure (auth.getCurrentUser, auth.logout and
\* every restaurant, category and dish procedure but restaurant.getPublicMenu)
\* called by a request whose context binds no user is answered UNAUTHORIZED
\* and leaves sessions and menu tables as they were, whatever its input; the
\* requests without identity are those without header, with a malformed
\* header, and with the token of no session or of a logged-out session.
C11_AnonymousIsRefused ==
    /\ MenuMutationsThrow(NoUserId, "UNAUTHORIZED")
    /\ MenuQueriesThrow(NoUserId, "UNAUTHORIZED")
    /\ \A h \in Headers :
         createTRPCContext(h) = NoUserId =>
             /\ getCurrentUser(h) = [status |-> "UNAUTHORIZED"]
             /\ logout(h) = [status |-> "UNAUTHORIZED"]
             /\ sessionsAfterLogout(h) = sessions
    /\ createTRPCContext(AbsentHeader) = NoUserId
    /\ \A t \in loggedOut \cup {UndefinedWord} : createTRPCContext(Bearer(t)) = NoUserId

\* a user has logged out while a restaurant with a category and a dish is
\* stored; the delete of that restaurant with the logged-out token is
\* refused, and the public menu is still served to the same request
C11_Witness ==
    \E t \in loggedOut, r \in menu.restaurants :
        /\ \E c \in menu.categories : c.restaurantId = r.id
        /\ \E d \in menu.dishes : d.restaurantId = r.id
        /\ restaurantDelete(createTRPCContext(Bearer(t)), r.id) = Throw("UNAUTHORIZED")
        /\ restaurantGetPublicMenu(createTRPCContext(Bearer(t)), r.id).status = "OK"

-----------------------------------------------------------------------------
(* C12 *)

\* the answer to a write under the restaurant owned by owner (NoUserId when
\* the row named does not exist), called by userId
WriteIsOwners(answer, owner, userId) ==
    IF owner = userId
    THEN answer.status \in {"OK", "BAD_REQUEST"}
    ELSE answer = Throw("NOT_FOUND")

OwnerOfCategory(id) ==
    IF \E c \in menu.categories : c.id = id
    THEN OwnerOfRestaurant((CHOOSE c \in menu.categories : c.id = id).restaurantId)
    ELSE NoUserId

OwnerOfDish(id) ==
    IF \E d \in menu.dishes : d.id = id
    THEN OwnerOfRestaurant((CHOOSE d \in menu.dishes : d.id = id).restaurantId)
    ELSE NoUserId

-----------------------------------------------------------------------------
(* C13 *)

Unchanged(answer) == answer.status # "OK" => answer.menu = menu

\* C13 as claimed: every menu mutation that is answered with an error
\* (UNAUTHORIZED, NOT_FOUND, BAD_REQUEST) leaves the menu tables exactly as
\* they were before the call.
C13_ErrorLeavesStoreUnchanged ==
    \A userId \in UserIds \cup {NoUserId} :
        /\ \A id \in RestaurantIds :
             /\ \A data \in AnyRestaurantPatch : Unchanged(restaurantUpdate(userId, id, data))
             /\ Unchanged(restaurantDelete(userId, id))
             /\ \A name \in CategoryNames : Unchanged(categoryCreate(userId, id, name))
             /\ \A name \in DishNames, categoryIds \in CategoryIdInputs :
                  Unchanged(dishCreate(userId, id, name, categoryIds))
        /\ \A id \in CategoryIdValues :
             /\ \A name \in CategoryRenames : Unchanged(categoryUpdate(userId, id, name))
             /\ Unchanged(categoryDelete(userId, id))
        /\ \A id \in DishIds :
             /\ \A data \in AnyDishPatch, categoryIds \in CategoryIdInputs :
                  Unchanged(dishUpdate(userId, id, data, categoryIds))
             /\ Unchanged(dishDelete(userId, id))

-----------------------------------------------------------------------------
(* C14 *)

\* C14 as claimed: once a verification has consumed a code row of an email,
\* a verification with any older code row of that email is answered
\* UNAUTHORIZED, also before the older row expires.
C14_OlderCodesDieWithNewer ==
    \A k \in Succeeded, r \in codes :
        (/\ r.email = k.email
         /\ r.id < k.codeId
         /\ now < r.expiresAt)
            => VerifyLookupStatus(r.email, r.code) = "UNAUTHORIZED"

-----------------------------------------------------------------------------
(* C18 *)

CategoryIdsOf(m, restaurantId) == {c.id : c \in {x \in m.categories : x.restaurantId = restaurantId}}

\* the links of the tables after that are not in the tables before
NewLinks(answer) == answer.menu.dishCategories \ menu.dishCategories

\* the answer to a dish request of the owner that names categoryIds for a
\* dish of the restaurant: BAD_REQUEST when an id is not a category of that
\* restaurant, and never a new link to a category outside it
ForeignIsRefused(answer, categoryIds, restaurantId) ==
    /\ (/\ categoryIds.given
        /\ ~(Range(categoryIds.ids) \subseteq CategoryIdsOf(menu, restaurantId)))
          => answer.status = "BAD_REQUEST"
    /\ \A l \in NewLinks(answer) : l.categoryId \in CategoryIdsOf(menu, restaurantId)

\* C18: dish.create and dish.update called by the owner with categoryIds of
\* which some id is not a category of the dish's restaurant (a category of
\* another restaurant, or of none) are answered BAD_REQUEST, and no call
\* creates a link from the dish to a category outside its restaurant.
C18_ForeignCategoryIsBadRequest ==
    /\ \A r \in menu.restaurants, name \in DishNames, categoryIds \in CategoryIdInputs :
         ForeignIsRefused(dishCreate(r.userId, r.id, name, categoryIds), categoryIds, r.id)
    /\ \A d \in menu.dishes, data \in AnyDishPatch, categoryIds \in CategoryIdInputs :
         ForeignIsRefused(dishUpdate(OwnerOfDish(d.id), d.id, data, categoryIds),
                          categoryIds, d.restaurantId)

\* a dish of one restaurant, linked to a category of its own; the owner's
\* update naming that category and a category of another restaurant is
\* answered BAD_REQUEST, and so is a create naming the other category alone
C18_Witness ==
    \E d \in menu.dishes, c1, c2 \in menu.categories :
        /\ c1.restaurantId = d.restaurantId
        /\ c2.restaurantId # d.restaurantId
        /\ [dishId |-> d.id, categoryId |-> c1.id] \in menu.dishCategories
        /\ \A data \in AnyDishPatch :
             dishUpdate(OwnerOfDish(d.id), d.id, data, CategoryIds(<<c1.id, c2.id>>)).status
                = "BAD_REQUEST"
        /\ \A name \in DishNames :
             dishCreate(OwnerOfDish(d.id), d.restaurantId, name, CategoryIds(<<c2.id>>)).status
                = "BAD_REQUEST"

-----------------------------------------------------------------------------
(* C15 *)

-----------------------------------------------------------------------------
(* C19 *)

-----------------------------------------------------------------------------
(* C16 *)

\* a step in which a logout succeeds with token t: the sessions with that
\* token go, every other session stays, users, codes and menu are as before,
\* and every other token binds the user it bound before
LogoutFrame ==
    loggedOut' # loggedOut =>
        \E t \in loggedOut' \ loggedOut :
            /\ loggedOut' = loggedOut \cup {t}
            /\ sessions' = {s \in sessions : s.token # t}
            /\ users' = users
            /\ codes' = codes
            /\ menu' = menu
            /\ \A k \in calls :
                 k.token # t =>
                     createTRPCContext(Bearer(k.token))' = createTRPCContext(Bearer(k.token))

\* C16: logout deletes exactly the sessions whose token is the token of the
\* request; every other session, among them the other sessions of the same
\* user, and all users and verification codes stay as they are, and the
\* other tokens keep authenticating.
C16_LogoutDeletesOnlyItsToken == [][LogoutFrame]_vars

\* a user holds two sessions; one has been logged out and is refused, the
\* other is still stored and still answers the user
C16_Witness ==
    \E k1, k2 \in Succeeded :
        /\ k1.token # k2.token
        /\ k1.user.id = k2.user.id
        /\ k1.token \in loggedOut
        /\ k2.token \notin loggedOut
        /\ \E s \in sessions : s.token = k2.token /\ s.userId = k1.user.id
        /\ getCurrentUser(Bearer(k1.token)).status = "UNAUTHORIZED"
        /\ getCurrentUser(Bearer(k2.token)).status = "OK"

-----------------------------------------------------------------------------
(* C17 *)

Deleted(k) == k.user.id \notin UserIds

\* C17 as claimed: getCurrentUser with a token issued for a user whose row
\* has been deleted is answered NOT_FOUND.
C17_DeletedUserIsNotFound ==
    \A k \in Succeeded :
        Deleted(k) => getCurrentUser(Bearer(k.token)).status = "NOT_FOUND"

\* C17 as amended: when the row of user U has been deleted, the cascade has
\* deleted the sessions of U with it, and getCurrentUser made after that with
\* a token issued for U is answered UNAUTHORIZED; no request made after the
\* deletion is answered NOT_FOUND.  NOT_FOUND is the answer of the handler
\* when it runs with the id of U already bound, that is, for a request whose
\* context was built before the deletion.
C17_DeletedUserIsUnauthorized ==
    /\ \A k \in Succeeded :
         Deleted(k) =>
             /\ ~\E s \in sessions : s.userId = k.user.id \/ s.token = k.token
             /\ getCurrentUser(Bearer(k.token)) = [status |-> "UNAUTHORIZED"]
             /\ getCurrentUserHandler(k.user.id) = [status |-> "NOT_FOUND"]
    /\ \A h \in Headers :
         /\ getCurrentUser(h).status # "NOT_FOUND"
         /\ isAuthenticated(createTRPCContext(h)) =>
                getCurrentUser(h) = getCurrentUserHandler(createTRPCContext(h))

\* one user has been deleted and its token, never logged out, is refused; the
\* token of the other user still answers that user
C17_Witness ==
    \E k1, k2 \in Succeeded :
        /\ Deleted(k1)
        /\ k1.token \notin loggedOut
        /\ getCurrentUser(Bearer(k1.token)).status = "UNAUTHORIZED"
        /\ ~Deleted(k2)
        /\ getCurrentUser(Bearer(k2.token)).status = "OK"

-----------------------------------------------------------------------------
(* C20 *)

NotBound(t) == createTRPCContext(Bearer(t)) = NoUserId

\* by the histories, which only grow: the token of call k has been logged
\* out, or the thirty days since its issue have passed
Stopped(k) == k.token \in loggedOut \/ now >= k.issuedAt + SessionTTL

\* C20: a token that has been logged out or has expired binds no user in
\* any later state, whatever codes, logins and registrations have followed
\* (no later session carries the same token, no operation extends an
\* expiry); and logged-out and expired tokens are answered alike,
\* UNAUTHORIZED, by the protected procedures.
C20_OneWayLifecycle ==
    \A k \in calls :
        Stopped(k) =>
            /\ NotBound(k.token)
            /\ getCurrentUser(Bearer(k.token)) = [status |-> "UNAUTHORIZED"]
            /\ logout(Bearer(k.token)) = [status |-> "UNAUTHORIZED"]
            /\ sessionsAfterLogout(Bearer(k.token)) = sessions

\* a token has expired, a login made after its expiry has returned another
\* token, which authenticates, and the expired token is still refused
C20_Witness ==
    \E k1, k2 \in Succeeded :
        /\ k1.token \notin loggedOut
        /\ k2.issuedAt >= k1.issuedAt + SessionTTL
        /\ k2.email = k1.email
        /\ getCurrentUser(Bearer(k2.token)).status = "OK"
        /\ getCurrentUser(Bearer(k1.token)) = [status |-> "UNAUTHORIZED"]
        /\ \E s \in sessions : s.token = k1.token

-----------------------------------------------------------------------------
(* Verifications one at a time, refused ones included *)

VerifyOps == {"verifyAndRegister", "verifyAndLogin"}

NextRefusal ==
    \/ ServerOnly /\ AllIdle /\ TickQuantum
    \/ ServerOnly /\ \E email \in Emails, offset \in RandomOffsets, mail \in MailOutcomes :
         AllIdle /\ SendVerificationCode(email, offset, mail)
    \/ ServerOnly /\ \E p \in Procs : AllIdle /\ VerifyAndRegisterStart(p)
    \/ ServerOnly /\ \E p \in Procs : AllIdle /\ VerifyAndLoginStart(p)
    \/ ServerOnly /\ VerifyStep
    \/ ServerOnly /\ \E p \in Procs, op \in VerifyOps, email \in Emails, code \in InputCodes :
         AllIdle /\ VerifyRefused(p, op, email, code)
    \/ ServerOnly /\ \E p \in Procs : VerifyThrow(p)

RefusalSpec == Init /\ [][NextRefusal]_vars

-----------------------------------------------------------------------------
(* C21 *)

\* every foreign key of users us, sessions ss and menu tables m points at a
\* row that exists
RefIntegrity(us, ss, m) ==
    /\ \A s \in ss : \E u \in us : u.id = s.userId
    /\ \A r \in m.restaurants : \E u \in us : u.id = r.userId
    /\ \A c \in m.categories : \E r \in m.restaurants : r.id = c.restaurantId
    /\ \A d \in m.dishes : \E r \in m.restaurants : r.id = d.restaurantId
    /\ \A l \in m.dishCategories :
         /\ \E d \in m.dishes : d.id = l.dishId
         /\ \E c \in m.categories : c.id = l.categoryId

\* C21: in every reachable state every session and restaurant references a
\* user that exists, every category and dish a restaurant that exists, every
\* dish-category link a dish and a category that exist; and the tables left
\* by restaurant.delete, category.delete and dish.delete of the owner hold
\* no row that hung on the deleted row and no dangling reference.
C21_ReferentialIntegrity ==
    /\ RefIntegrity(users, sessions, menu)
    /\ \A r \in menu.restaurants :
         LET after == restaurantDelete(r.userId, r.id).menu
         IN  /\ RefIntegrity(users, sessions, after)
             /\ ~\E x \in after.restaurants : x.id = r.id
             /\ ~\E c \in after.categories : c.restaurantId = r.id
             /\ ~\E d \in after.dishes : d.restaurantId = r.id
    /\ \A c \in menu.categories :
         LET after == categoryDelete(OwnerOfCategory(c.id), c.id).menu
         IN  /\ RefIntegrity(users, sessions, after)
             /\ ~\E x \in after.categories : x.id = c.id
             /\ ~\E l \in after.dishCategories : l.categoryId = c.id
    /\ \A d \in menu.dishes :
         LET after == dishDelete(OwnerOfDish(d.id), d.id).menu
         IN  /\ RefIntegrity(users, sessions, after)
             /\ ~\E x \in after.dishes : x.id = d.id
             /\ ~\E l \in after.dishCategories : l.dishId = d.id

\* a restaurant holds a category and a dish linked to each other; the
\* owner's delete of the restaurant leaves no category, dish or link, while
\* the restaurant of the other user stays
C21_Witness ==
    \E r, r2 \in menu.restaurants, l \in menu.dishCategories :
        /\ r2.userId # r.userId
        /\ \E d \in menu.dishes : d.id = l.dishId /\ d.restaurantId = r.id
        /\ \E c \in menu.categories : c.id = l.categoryId /\ c.restaurantId = r.id
        /\ restaurantDelete(r.userId, r.id).status = "OK"
        /\ restaurantDelete(r.userId, r.id).menu.dishCategories = {}
        /\ restaurantDelete(r.userId, r.id).menu.dishes = {}
        /\ restaurantDelete(r.userId, r.id).menu.restaurants = {r2}

-----------------------------------------------------------------------------
(* C27 *)

\* C27: in every reachable state, after any sequence of restaurant,
\* category and dish calls, those answered BAD_REQUEST included, every
\* dish-category link connects a dish and a category of the same restaurant.
C27_LinksWithinOneRestaurant ==
    \A l \in menu.dishCategories :
        \E d \in menu.dishes, c \in menu.categories :
            /\ d.id = l.dishId
            /\ c.id = l.categoryId
            /\ d.restaurantId = c.restaurantId

\* a dish that an update has renamed is linked to the category of its own
\* restaurant, while a category of another restaurant is stored
C27_Witness ==
    \E l \in menu.dishCategories, d \in menu.dishes, c2 \in menu.categories :
        /\ d.id = l.dishId
        /\ d.name = "Chicken Wings"
        /\ c2.restaurantId # d.restaurantId
        /\ c2.id # l.categoryId

-----------------------------------------------------------------------------
(* C23 *)

\* the stored unexpired rows that match the request p has just looked up
MatchingAtLookup(p) ==
    {q \in codes : /\ q.email = procs'[p].email
                   /\ q.code = procs'[p].code
                   /\ q.expiresAt > now}

\* the step in which the request of p finds its row: the row is stored,
\* matches, and no stored matching row was created after it
SelectsMostRecent(p) ==
    (procs[p].pc = "idle" /\ procs'[p].pc = "findUser")
        => /\ procs'[p].vc \in MatchingAtLookup(p)
           /\ \A q \in MatchingAtLookup(p) : q.createdAt <= procs'[p].vc.createdAt

\* the step in which the request of p deletes its row and returns removes
\* that row and no other
DeletesOnlyItsRow(p) ==
    (procs[p].pc = "delete" /\ procs'[p].pc = "idle")
        => codes' = codes \ {procs[p].vc}

\* C23: rows with the same email and code may be stored together; the
\* lookup of a verification selects, among the stored unexpired rows that
\* match its (email, code) at that moment, one that none of them is younger
\* than, and the step that ends the verification deletes that row and no
\* other row.
C23_NewestMatchingCodeIsConsumed ==
    [][\A p \in Procs : SelectsMostRecent(p) /\ DeletesOnlyItsRow(p)]_vars

\* a successful verification has consumed its row while an older unexpired
\* row with the same email and code is still stored
C23_Witness ==
    \E k \in calls, r \in issued, q \in codes :
        /\ k.status = "OK"
        /\ r.id = k.codeId
        /\ r \notin codes
        /\ q.email = r.email
        /\ q.code = r.code
        /\ q.createdAt < r.createdAt
        /\ q.expiresAt > k.lookupAt

-----------------------------------------------------------------------------
(* C24 *)

\* the code rows that a verification has deleted
Consumed == issued \ codes

\* C24 as claimed: every stored session was minted by a verification that
\* returned its token, a verification that ended in an error has left no
\* session, and once no request is in flight no more sessions have ever
\* been created than codes were consumed.
C24_SessionsOnlyFromSucceededCalls ==
    /\ \A k \in calls :
         k.status = "INTERNAL_SERVER_ERROR" => ~\E s \in sessions : s.token = k.token
    /\ AllIdle =>
         /\ \A s \in sessions : \E k \in Succeeded : k.token = s.token
         /\ Cardinality(calls) <= Cardinality(Consumed)

-----------------------------------------------------------------------------
(* C25 *)

\* a step that begins or ends a refused request of p
RefusalStep(p) == procs[p].pc # procs'[p].pc /\ "refused" \in {procs[p].pc, procs'[p].pc}

\* C25: a verifyAndRegister or verifyAndLogin call is answered UNAUTHORIZED
\* exactly when no stored unexpired row has its email and code, and from
\* its arrival to its return it leaves the users, the sessions and the
\* verification codes as they were.
C25_RefusedVerificationChangesNothing ==
    /\ [](\A p \in Procs : procs[p].pc = "refused" =>
            ~\E r \in codes : /\ r.email = procs[p].email
                              /\ r.code = procs[p].code
                              /\ r.expiresAt > now)
    /\ [][\A p \in Procs : RefusalStep(p) => UNCHANGED <<users, sessions, codes>>]_vars

\* a request is refused for a code that is stored under its email and has
\* expired, while a user and a session are stored
C25_Witness ==
    \E p \in Procs, r \in codes :
        /\ procs[p].pc = "refused"
        /\ r.email = procs[p].email
        /\ r.code = procs[p].code
        /\ r.expiresAt <= now
        /\ users # {}
        /\ sessions # {}

-----------------------------------------------------------------------------
(* C26 *)

\* the verification k found a row issued for its own email and code that
\* had not expired when it looked
LookedUpValidCode(k) ==
    \E r \in issued : /\ r.id = k.codeId
                      /\ r.email = k.email
                      /\ r.code = k.code
                      /\ r.createdAt <= k.lookupAt
                      /\ k.lookupAt < r.expiresAt

\* C26: in every reachable state each session belongs to the user whose
\* email is the email of the verification that created the session, and
\* that verification found an unexpired code issued for that email; no
\* session binds a user of another email than the one the code was issued
\* for.
C26_SessionUserOwnsTheCodeEmail ==
    \A s \in sessions :
        \E k \in calls, u \in users :
            /\ k.token = s.token
            /\ u.id = s.userId
            /\ u.email = k.email
            /\ LookedUpValidCode(k)
            /\ \A r \in issued : r.id = k.codeId => r.email = u.email

\* two users with different emails each hold a session that a completed
\* verification for their own email created
C26_Witness ==
    \E s1, s2 \in sessions, k1, k2 \in Succeeded, u1, u2 \in users :
        /\ k1.token = s1.token /\ k2.token = s2.token
        /\ u1.id = s1.userId /\ u2.id = s2.userId
        /\ u1.email # u2.email
        /\ k1.email = u1.email /\ k2.email = u2.email

-----------------------------------------------------------------------------
(* Paged lists: restaurant.getAll, category.getAll, dish.getByRestaurant,  *)
(* walked by an infinite query with getNextPageParam = nextCursor          *)

\* the category names of the model in ascending order
SortedNames == <<"Mains", "Starters">>

\* orderBy: {name: "asc"}
NameKey(row) == CHOOSE i \in DOMAIN SortedNames : SortedNames[i] = row.name

\* orderBy: {createdAt: "desc"}; rows are inserted one after another, so
\* createdAt grows with the creation counter the id is drawn from
CreatedAtDescKey(row) == 0 - row.id

\* the orderBy of the list: categories by name, restaurants and dishes by
\* createdAt
SortKey(list, row) ==
    IF list = "category" THEN NameKey(row) ELSE CreatedAtDescKey(row)

\* the orders in which the database may return the rows of a list sorted
\* by its key: rows with equal keys come in an order the database does not
\* specify
Orderings(rows, list) ==
    {o \in [1..Cardinality(rows) -> rows] :
        \A i, j \in 1..Cardinality(rows) :
            i < j => o[i] # o[j] /\ SortKey(list, o[i]) <= SortKey(list, o[j])}

\* where the row with the cursor's id stands in o (past the end if nowhere)
CursorPosition(o, cursor) ==
    IF cursor = NoCursor THEN 1
    ELSE IF \E i \in DOMAIN o : o[i].id = cursor
    THEN CHOOSE i \in DOMAIN o : o[i].id = cursor
    ELSE Len(o) + 1

\* findMany({where, take, cursor: cursor ? {id: cursor} : undefined, orderBy}):
\* the rows from the cursor row on, at most take of them
findMany(rows, list, take, cursor) ==
    {LET from == CursorPosition(o, cursor)
         to == IF from + take - 1 < Len(o) THEN from + take - 1 ELSE Len(o)
     IN  SubSeq(o, from, to) : o \in Orderings(rows, list)}

\* if (rows.length > limit) { nextCursor = rows.pop()?.id }; return {items, nextCursor}
Page(found, limit) ==
    IF Len(found) > limit
    THEN [status |-> "OK", items |-> SubSeq(found, 1, Len(found) - 1),
          nextCursor |-> found[Len(found)].id]
    ELSE [status |-> "OK", items |-> found, nextCursor |-> NoCursor]

\* the rows a list request ranges over
ListRows(list, userId, restaurantId) ==
    CASE list = "restaurant" -> {r \in menu.restaurants : r.userId = userId}
      [] list = "category" -> {c \in menu.categories : c.restaurantId = restaurantId}
      [] list = "dish" -> {d \in menu.dishes : d.restaurantId = restaurantId}

\* the answers restaurant.getAll({limit, cursor}) may give
restaurantGetAllPaged(userId, limit, cursor) ==
    IF ~isAuthenticated(userId) THEN {[status |-> "UNAUTHORIZED"]}
    ELSE {Page(found, limit) :
            found \in findMany(ListRows("restaurant", userId, 0),
                               "restaurant", limit + 1, cursor)}

\* the answers category.getAll({restaurantId, limit, cursor}) may give
categoryGetAllPaged(userId, restaurantId, limit, cursor) ==
    IF ~isAuthenticated(userId) THEN {[status |-> "UNAUTHORIZED"]}
    ELSE IF findOwnedRestaurant(restaurantId, userId) = {} THEN {[status |-> "NOT_FOUND"]}
    ELSE {Page(found, limit) :
            found \in findMany(ListRows("category", userId, restaurantId),
                               "category", limit + 1, cursor)}

\* the answers dish.getByRestaurant({restaurantId, limit, cursor}) may give
dishGetByRestaurantPaged(userId, restaurantId, limit, cursor) ==
    IF ~isAuthenticated(userId) THEN {[status |-> "UNAUTHORIZED"]}
    ELSE IF findOwnedRestaurant(restaurantId, userId) = {} THEN {[status |-> "NOT_FOUND"]}
    ELSE {Page(found, limit) :
            found \in findMany(ListRows("dish", userId, restaurantId),
                               "dish", limit + 1, cursor)}

Lists == {"restaurant", "category", "dish"}

\* limit: z.number().min(1).max(50)
PageLimits == {1, 2}

ListAnswers(list, userId, restaurantId, limit, cursor) ==
    CASE list = "restaurant" -> restaurantGetAllPaged(userId, limit, cursor)
      [] list = "category" -> categoryGetAllPaged(userId, restaurantId, limit, cursor)
      [] list = "dish" -> dishGetByRestaurantPaged(userId, restaurantId, limit, cursor)

\* the ids of the rows of a page
IdsOf(items) == [i \in DOMAIN items |-> items[i].id]

\* useInfiniteQuery: the first page, requested without a cursor
PageOpen(authHeader) ==
    /\ pager = NoWalk
    /\ \E list \in Lists, restaurantId \in RestaurantIds, limit \in PageLimits :
         LET userId == createTRPCContext(authHeader)
         IN  /\ list = "restaurant" => restaurantId = 1
             /\ \E answer \in ListAnswers(list, userId, restaurantId, limit, NoCursor) :
                  /\ answer.status = "OK"
                  /\ pager' = [list |-> list, userId |-> userId,
                               restaurantId |-> IF list = "restaurant" THEN 0
                                                ELSE restaurantId,
                               limit |-> limit, cursor |-> answer.nextCursor,
                               pages |-> <<IdsOf(answer.items)>>,
                               done |-> answer.nextCursor = NoCursor]
    /\ UNCHANGED <<authOnly, menu, client>>

\* fetchNextPage: the next page, requested with the last page's nextCursor
PageNext ==
    /\ pager # NoWalk
    /\ ~pager.done
    /\ Len(pager.pages) < MaxPages
    /\ \E answer \in ListAnswers(pager.list, pager.userId, pager.restaurantId,
                                 pager.limit, pager.cursor) :
         /\ answer.status = "OK"
         /\ pager' = [pager EXCEPT !.cursor = answer.nextCursor,
                                   !.pages = Append(@, IdsOf(answer.items)),
                                   !.done = answer.nextCursor = NoCursor]
    /\ UNCHANGED <<authOnly, menu, client>>

\* the list is left
PageClose ==
    /\ pager # NoWalk
    /\ pager' = NoWalk
    /\ UNCHANGED <<authOnly, menu, client>>

\* lists are filled while no list is being walked, then walked page by page
NextPage ==
    \/ \E h \in MenuHeaders : pager = NoWalk /\ ServerOnly /\ RestaurantCreate(h)
    \/ \E h \in MenuHeaders : pager = NoWalk /\ ServerOnly /\ CategoryCreate(h)
    \/ \E h \in MenuHeaders : pager = NoWalk /\ ServerOnly /\ CategoryUpdate(h)
    \/ \E h \in MenuHeaders : pager = NoWalk /\ ServerOnly /\ DishCreate(h)
    \/ \E h \in MenuHeaders : PageOpen(h)
    \/ PageNext
    \/ PageClose

PageSpec == MenuInit /\ [][NextPage]_vars

-----------------------------------------------------------------------------
(* C30 *)

\* the ids the pages fetched so far list, in the order of their listing
RECURSIVE Flatten(_)
Flatten(pages) ==
    IF pages = <<>> THEN <<>> ELSE Head(pages) \o Flatten(Tail(pages))

Listed == Flatten(pager.pages)

Collection == ListRows(pager.list, pager.userId, pager.restaurantId)

RowOf(id) == CHOOSE r \in Collection : r.id = id

\* C30 as claimed: while a list is walked without modification, each page
\* holds at most limit items, nextCursor is defined exactly when items
\* remain after the page, no item is listed twice, and when nextCursor is
\* undefined every item of the collection has been listed once, in the
\* declared order.
C30_PagesListEveryItemOnce ==
    pager # NoWalk =>
        /\ \A i \in DOMAIN pager.pages : Len(pager.pages[i]) <= pager.limit
        /\ (pager.cursor # NoCursor) <=> (Len(Listed) < Cardinality(Collection))
        /\ \A i, j \in DOMAIN Listed : i < j => Listed[i] # Listed[j]
        /\ pager.done =>
             /\ {Listed[i] : i \in DOMAIN Listed} = {r.id : r \in Collection}
             /\ \A i, j \in DOMAIN Listed :
                  i < j => SortKey(pager.list, RowOf(Listed[i]))
                              <= SortKey(pager.list, RowOf(Listed[j]))

-----------------------------------------------------------------------------
(* The browser: AuthProvider, useAuthActions and the login page.  stored    *)
(* is localStorage["auth-token"], token and isInitialized are the state of  *)
(* AuthProvider, query and user the getCurrentUser query and its data,      *)
(* errorSeen tells that the effect on [error, isInitialized] has run for    *)
(* the present error, step is the step of the login page, pending the       *)
(* mutation in flight, cleared the history of the tokens removed.           *)

NullWord == <<"n","u","l","l">>

\* storedToken && storedToken !== "undefined" && storedToken !== "null" &&
\* storedToken.trim() !== ""
UsableStored(t) ==
    /\ ~t.null
    /\ t.str # <<>>
    /\ t.str # UndefinedWord
    /\ t.str # NullWord
    /\ Trim(t.str) # <<>>

\* getHeaders: the Authorization header of every request of the browser
getHeaders(stored) ==
    IF UsableStored(stored) THEN Bearer(stored.str) ELSE AbsentHeader

\* isAuthenticated: !!user && !!token
clientIsAuthenticated == client.user # NoUserId /\ UsableStored(client.token)

\* a request reaches the server and its answer the browser, or not
NetOutcomes == {"ok", "fail"}

\* the browser is at rest: no mutation in flight, no effect waiting
ClientAtRest == client.isInitialized /\ client.pending = "none" /\ client.errorSeen

\* the tokens removed so far, with what removed them
Cleared(by) ==
    IF UsableStored(client.stored)
    THEN client.cleared \cup {[token |-> client.stored.str, by |-> by]}
    ELSE client.cleared

\* AuthProvider mounts: the token is read from localStorage
ClientMount ==
    /\ ~client.isInitialized
    /\ client' = [client EXCEPT
                    !.token = IF UsableStored(client.stored) THEN client.stored
                              ELSE NullToken,
                    !.stored = IF UsableStored(client.stored) THEN client.stored
                               ELSE NullToken,
                    !.isInitialized = TRUE]
    /\ UNCHANGED <<authOnly, menu, pager>>

\* the page is loaded again: the state of the components is lost,
\* localStorage stays
ClientReload ==
    /\ ClientAtRest
    /\ UsableStored(client.stored)
    /\ client' = [ClientClosed EXCEPT !.stored = client.stored,
                                      !.cleared = client.cleared]
    /\ UNCHANGED <<authOnly, menu, pager>>

\* getCurrentUser.useQuery, enabled: !!token && isInitialized, retry: false
ClientFetchUser ==
    /\ ClientAtRest
    /\ UsableStored(client.token)
    /\ \E net \in NetOutcomes :
         LET answer == getCurrentUser(getHeaders(client.stored))
         IN  client' = IF net = "ok" /\ answer.status = "OK"
                       THEN [client EXCEPT !.query = "success",
                                           !.user = answer.user.id]
                       ELSE [client EXCEPT !.query = "error", !.errorSeen = FALSE]
    /\ UNCHANGED <<authOnly, menu, pager>>

\* mutant: the effect forgets localStorage
ClientErrorEffectKeepsStored ==
    /\ client.isInitialized
    /\ ~client.errorSeen
    /\ client' = [client EXCEPT !.token = NullToken, !.errorSeen = TRUE]
    /\ UNCHANGED <<authOnly, menu, pager>>

\* useEffect on [error, isInitialized]: if (error && isInitialized)
\* { localStorage.removeItem(TOKEN_KEY); setToken(null) }
ClientErrorEffect ==
    /\ client.isInitialized
    /\ ~client.errorSeen
    /\ client' = [client EXCEPT !.stored = NullToken, !.token = NullToken,
                                !.errorSeen = TRUE, !.cleared = Cleared("effect")]
    /\ UNCHANGED <<authOnly, menu, pager>>

\* handleSendCode: sendCode.mutate({email}), onSuccess setStep("verify")
ClientSendCode ==
    /\ ClientAtRest
    /\ client.step = "email"
    /\ ~UsableStored(client.token)
    /\ \E email \in Emails, offset \in RandomOffsets, mail \in MailOutcomes :
         /\ SendVerificationCode(email, offset, mail)
         /\ client' = IF sendVerificationCodeResponse(
                            email, generateVerificationCode(offset), mail).status = "OK"
                      THEN [client EXCEPT !.step = "verify", !.email = email]
                      ELSE client
    /\ UNCHANGED pager

\* handleVerify: handleLogin(email, code) sends verifyAndLogin
ClientVerify ==
    /\ ClientAtRest
    /\ client.step = "verify"
    /\ AllIdle
    /\ \E code \in InputCodes :
         \/ VerifyLookup(1, "verifyAndLogin", client.email, code, NoProfile)
         \/ VerifyRefused(1, "verifyAndLogin", client.email, code)
    /\ client' = [client EXCEPT !.pending = "verifyAndLogin"]
    /\ UNCHANGED pager

\* the Back button of the verify form: setStep("email")
ClientBack ==
    /\ ClientAtRest
    /\ client.step = "verify"
    /\ client' = [client EXCEPT !.step = "email"]
    /\ UNCHANGED <<authOnly, menu, pager>>

\* handleRegisterSubmit, the onSubmit of the form that the register step
\* shows: handleRegister(email, code, name, country) sends verifyAndRegister
ClientRegister ==
    /\ ClientAtRest
    /\ client.step = "register"
    /\ AllIdle
    /\ \E code \in InputCodes, profile \in Profiles :
         \/ VerifyLookup(1, "verifyAndRegister", client.email, code, profile)
         \/ VerifyRefused(1, "verifyAndRegister", client.email, code)
    /\ client' = [client EXCEPT !.pending = "verifyAndRegister"]
    /\ UNCHANGED pager

\* what the verification of p answers in the step that ends it
VerifyResponse(p) ==
    CASE procs[p].pc = "refused" -> [status |-> "UNAUTHORIZED"]
      [] procs[p].pc = "delete" ->
            IF \E r \in codes : r.id = procs[p].vc.id
            THEN [status |-> "OK",
                  token |-> (CHOOSE c \in calls : c.proc = p /\ c.status = "pending").token]
            ELSE [status |-> "INTERNAL_SERVER_ERROR"]
      [] OTHER -> [status |-> "INTERNAL_SERVER_ERROR"]

\* mutant: every refusal sends the user to the registration form
handleLoginRegistersOnError(response) ==
    IF response.status = "OK"
    THEN [success |-> TRUE, needsRegistration |-> FALSE, thrown |-> FALSE]
    ELSE [success |-> FALSE, needsRegistration |-> TRUE, thrown |-> FALSE]

\* handleLogin: {success: true} with a token, {success: false,
\* needsRegistration: true} on NOT_FOUND, any other error is thrown again
handleLogin(response) ==
    IF response.status = "OK"
    THEN [success |-> TRUE, needsRegistration |-> FALSE, thrown |-> FALSE]
    ELSE IF response.status = "NOT_FOUND"
    THEN [success |-> FALSE, needsRegistration |-> TRUE, thrown |-> FALSE]
    ELSE [success |-> FALSE, needsRegistration |-> FALSE, thrown |-> TRUE]

\* the browser after the answer to verifyAndLogin: login(token) stores the
\* token and router.push("/dashboard") leaves the login page; handleVerify
\* moves to the registration form when needsRegistration
AfterVerify(response) ==
    LET result == handleLogin(response)
    IN  IF result.success
        THEN [client EXCEPT !.stored = StrToken(response.token),
                            !.token = StrToken(response.token),
                            !.pending = "none", !.step = "email"]
        ELSE IF result.needsRegistration
        THEN [client EXCEPT !.step = "register", !.pending = "none"]
        ELSE [client EXCEPT !.pending = "none"]

\* the server works on the verification the browser waits for
ClientAwaitVerify ==
    /\ client.pending = "verifyAndLogin"
    /\ VerifyStep \/ VerifyThrow(1)
    /\ client' = IF procs'[1].pc = "idle" THEN AfterVerify(VerifyResponse(1))
                 ELSE client
    /\ UNCHANGED pager

\* logout with a token: logoutMutation.mutateAsync(); the server runs
\* auth.logout when the request reaches it
ClientLogout ==
    /\ ClientAtRest
    /\ UsableStored(client.token)
    /\ \E net \in NetOutcomes :
         IF net = "ok"
         THEN /\ Logout(getHeaders(client.stored))
              /\ client' = [client EXCEPT !.pending =
                              IF logout(getHeaders(client.stored)).status = "OK"
                              THEN "logoutSuccess" ELSE "logoutError"]
         ELSE /\ client' = [client EXCEPT !.pending = "logoutError"]
              /\ UNCHANGED <<authOnly, menu>>
    /\ UNCHANGED pager

\* mutant: onError leaves the token in place
ClientLogoutSettledKeepsOnError ==
    /\ client.pending \in {"logoutSuccess", "logoutError"}
    /\ client' = IF client.pending = "logoutSuccess"
                 THEN [client EXCEPT !.stored = NullToken, !.token = NullToken,
                                     !.pending = "none", !.step = "email",
                                     !.cleared = Cleared(client.pending)]
                 ELSE [client EXCEPT !.pending = "none"]
    /\ UNCHANGED <<authOnly, menu, pager>>

\* onSuccess and onError of logoutMutation: localStorage.removeItem,
\* setToken(null), router.push("/")
ClientLogoutSettled ==
    /\ client.pending \in {"logoutSuccess", "logoutError"}
    /\ client' = [client EXCEPT !.stored = NullToken, !.token = NullToken,
                                !.pending = "none", !.step = "email",
                                !.cleared = Cleared(client.pending)]
    /\ UNCHANGED <<authOnly, menu, pager>>

\* one browser against the server, over the lifetime of a session; the
\* browser's requests are those its pages can make (ClientRegister is shown
\* by C28 never to be enabled)
NextClient ==
    \/ ServerOnly /\ AllIdle /\ TickQuantum
    \/ ServerOnly /\ AllIdle /\ TickLeap
    \/ ClientMount
    \/ ClientReload
    \/ ClientFetchUser
    \/ ClientErrorEffect
    \/ ClientSendCode
    \/ ClientVerify
    \/ ClientBack
    \/ ClientAwaitVerify
    \/ ClientLogout
    \/ ClientLogoutSettled

ClientSpec == Init /\ [][NextClient]_vars

\* effects run after the render that changed their dependencies, and the
\* callbacks of a mutation run when it settles
ClientLiveSpec ==
    /\ Init
    /\ [][NextClient]_vars
    /\ WF_vars(ClientErrorEffect)
    /\ WF_vars(ClientLogoutSettled)

-----------------------------------------------------------------------------
(* C22 *)

\* the getCurrentUser query has failed for the stored token t and the
\* effect has not run yet
QueryFailedFor(t) ==
    /\ client.query = "error"
    /\ ~client.errorSeen
    /\ client.stored = StrToken(t)

\* t is neither in localStorage nor in the state of AuthProvider
RemovedFromBrowser(t) ==
    /\ client.stored # StrToken(t)
    /\ client.token # StrToken(t)
    /\ \E c \in client.cleared : c.token = t

\* C22: whenever the getCurrentUser query fails for the stored token, the
\* token is eventually removed from localStorage and from the state of
\* AuthProvider; a browser without the token in its state is not
\* authenticated, and once a token is removed no request of the browser
\* carries it: the header of every request is computed from localStorage,
\* which never holds a removed token again.
C22_FailedQueryClearsToken ==
    /\ \A t \in AllTokens : QueryFailedFor(t) ~> RemovedFromBrowser(t)
    /\ [](~UsableStored(client.token) => ~clientIsAuthenticated)
    /\ [](\A c \in client.cleared :
            /\ getHeaders(client.stored) # Bearer(c.token)
            /\ client.token # StrToken(c.token))

\* the session of the stored token has expired, the query was answered
\* UNAUTHORIZED, and the effect has removed the token from the browser
C22_Witness ==
    \E c \in client.cleared :
        /\ c.by = "effect"
        /\ getCurrentUser(Bearer(c.token)).status = "UNAUTHORIZED"
        /\ client.stored = NullToken
        /\ client.token = NullToken
        /\ client.query = "error"
        /\ client.errorSeen
        /\ ~clientIsAuthenticated
        /\ getHeaders(client.stored) = AbsentHeader

-----------------------------------------------------------------------------
(* C28 *)

-----------------------------------------------------------------------------
(* C29 *)

LogoutInFlight == client.pending \in {"logoutSuccess", "logoutError"}

LoggedOutLocally ==
    /\ client.stored = NullToken
    /\ client.token = NullToken
    /\ client.pending = "none"

\* C29: a logout of the browser ends with the token removed from
\* localStorage and from the state of AuthProvider, whether the server
\* answered the logout call or the call failed.
C29_LogoutAlwaysClearsLocally ==
    /\ (client.pending = "logoutSuccess") ~> LoggedOutLocally
    /\ (client.pending = "logoutError") ~> LoggedOutLocally
    /\ [][LogoutInFlight /\ ~LogoutInFlight' => LoggedOutLocally']_vars

\* the logout call failed, the browser is logged out, and the session of
\* the removed token is still accepted by the server
C29_Witness ==
    \E c \in client.cleared, s \in sessions :
        /\ c.by = "logoutError"
        /\ s.token = c.token
        /\ s.expiresAt > now
        /\ getCurrentUser(Bearer(c.token)).status = "OK"
        /\ LoggedOutLocally
        /\ ~clientIsAuthenticated

====
